---- MODULE Spec2Model ----
(***************************************************************************)
(* nanocortex: the decision agent (reasoning/agent.py), the policy engine  *)
(* it consults (reasoning/policy.py), the audit logger both write to       *)
(* (audit/logger.py), the learning loop (learning/feedback.py) and the     *)
(* knowledge store (knowledge/retriever.py).                               *)
(*                                                                         *)
(* Spec is the agent with its policy engine; PolicySpec is the policy      *)
(* engine alone, AggregateSpec is check_allowed on lists of its caller,    *)
(* LearningSpec is one learning loop, PersistSpec is a learning loop, its  *)
(* state file and the loop that loads it, KnowledgeSpec is the knowledge   *)
(* store: documents indexed into it and queries put to it.                 *)
(*                                                                         *)
(* Strings are sequences of tokens: a token is one of the literal pieces   *)
(* the code concatenates or searches for, the empty string is <<>>.        *)
(* Scores are hundredths.                                                  *)
(* decide is a coroutine: it is split at its two await points, and a       *)
(* coroutine that is not suspended on the network keeps the event loop.    *)
(***************************************************************************)
EXTENDS Integers, Sequences, FiniteSets, TLC

\* ---------------------------------------------------------------- bounds
MaxDecides == 2
MaxRules == 2
MaxOverrides == 1
MaxFeedback == 6
MaxEvaluations == 1
MaxSaves == 1
MaxLoads == 1
MaxRestartFeedback == 4
MaxEvaluates == 2
MaxListLen == 3
MaxDocs == 2
MaxRetrieves == 1
MaxLogs == 3
BaseLen == 2
MaxRaceCalls == 2
MaxIndexCalls == 3

\* ------------------------------------------------------------- constants
FallbackTextLen == 500
MaxChars == 500
RrfK == 60

None == [absent |-> TRUE]
EmptyPayload == [empty |-> TRUE]
Raised == [raised |-> TRUE]
NoResult == [op |-> "none"]
NoId == 0

MARK == "[AWAITING APPROVAL] "
DENIED_MSG == <<"[DENIED] Policy violation: action not permitted.">>
NO_EVIDENCE_MSG == <<"No evidence found. Cannot answer without grounded data.">>
ORCH_MODEL == "orchestrator-model"
AUDITOR_MODEL == "auditor-model"

\* models/domain.py: AgentState, PolicyVerdict
AgentState == {"running", "paused", "waiting_approval", "completed", "failed"}
PolicyVerdict == {"allow", "deny", "needs_approval"}

VARIABLES
    rules,        \* PolicyEngine._rules
    state,        \* DecisionAgent._state
    pending,      \* DecisionAgent._pending_decision
    events,       \* AuditLogger._events
    settings,     \* Settings: enable_human_in_loop and the two api keys
    coro,         \* the decide coroutines: position and locals
    nextId,       \* the identifiers _new_id has handed out to decisions
    genCalls,     \* requests sent to the answer generator
    revCalls,     \* requests sent to the reviewer
    overrides,    \* number of override calls made
    returned,     \* the Decision each decide call returned, by identifier
    result,       \* what the operation that just ran returned
    loops,        \* the LearningLoop objects: _feedback, _adjustments, _mistake_counts
    state_file,   \* data/learning/state.json
    marks,        \* how many feedback records a loop held when it saved or loaded
    chunks,       \* KnowledgeStore._chunks
    doc_ids,      \* KnowledgeStore._doc_ids
    threads,      \* the threads inside a call: position and locals
    audit_file    \* audit-<day>.jsonl: the events written, one a line

vars == <<rules, state, pending, events, settings, coro, nextId,
          genCalls, revCalls, overrides, returned, result,
          loops, state_file, marks, chunks, doc_ids, threads, audit_file>>

\* the variables of the decision agent, of the policy engine with the audit
\* logger, and of the learning loop
agentVars == <<state, pending, settings, coro, nextId, genCalls, revCalls,
               overrides, returned>>
learningVars == <<loops, state_file, marks>>
knowledgeVars == <<chunks, doc_ids>>
threadVars == <<threads, audit_file>>

\* the threads of the process, and a thread that is inside no call
Threads == {1, 2}
IdleThread == [pc |-> "idle"]

\* ------------------------------------------------------------ input sets
\* every decide call may be in flight at once
Coroutines == 1..MaxDecides
DecisionIds == 1..(MaxDecides + 1)     \* the last one is never issued
OverrideIds == {1}                     \* pending in some states, not in others

Citation(doc, page) == [doc_id |-> doc, page |-> page]
RetrievalResult(cid, text, score, cits) ==
    [chunk_id |-> cid, text |-> text, score |-> score, citations |-> cits]
RetrievalResponse(results) == [results |-> results]

\* a context argument: given = FALSE is context=None, entries is the dict
NoContext == [given |-> FALSE, entries |-> {}]

\* the queries put to decide: one asks for the secret plan and has no
\* evidence, one has weak evidence, one has strong evidence
DecideInputs ==
    { [query |-> <<"the", "SECRET", "plan">>, evidence |-> RetrievalResponse(<<>>),
       context |-> NoContext],
      [query |-> <<"what", "is", "wind">>,
       evidence |-> RetrievalResponse(
           <<RetrievalResult("c2", <<"wind", "power">>, 30, <<Citation("d1", 2)>>),
             RetrievalResult("c1", <<"solar", "energy">>, 10, <<Citation("d1", 1)>>)>>),
       context |-> NoContext],
      [query |-> <<"what", "is", "solar">>,
       evidence |-> RetrievalResponse(
           <<RetrievalResult("c1", <<"solar", "energy">>, 90, <<Citation("d1", 1)>>),
             RetrievalResult("c2", <<"wind", "power">>, 30, <<Citation("d1", 2)>>)>>),
       context |-> NoContext] }

PolicyRule(name, cond, verdict) ==
    [name |-> name, condition |-> cond, verdict |-> verdict]

RuleCatalog ==
    { PolicyRule("low_confidence", <<"min_score:", "0.5">>, "needs_approval"),
      PolicyRule("secret", <<"contains:", "secret">>, "deny"),
      PolicyRule("broken", <<"contains:", "(">>, "deny") }

\* the rule lists add_rule can have built before the first query
RuleLists == UNION {[1..n -> RuleCatalog] : n \in 0..MaxRules}

\* Settings: the flag, and whether each provider has an api key
SettingsSet == [enable_human_in_loop : BOOLEAN,
                orchestrator_key : BOOLEAN, auditor_key : BOOLEAN]

\* answers of the generator; one quotes the pending marker
GenTexts == { <<"it", "is", "energy">>, <<"state", MARK, "unknown">> }
ReviewTexts == { "PASS" }
Reasons == { <<>>, <<"wrong">> }
NewAnswers == { <<"fixed">> }
OverrideReasons == { <<"policy">> }

\* ---------------------------------------------------------- string helpers
Min(a, b) == IF a < b THEN a ELSE b

\* s[:n]
Take(s, n) == SubSeq(s, 1, Min(n, Len(s)))

\* s[n:]
Drop(s, n) == SubSeq(s, Min(n, Len(s)) + 1, Len(s))

RECURSIVE LStrip(_)
LStrip(s) == IF s # <<>> /\ Head(s) = " " THEN LStrip(Tail(s)) ELSE s

RECURSIVE RStrip(_)
RStrip(s) == IF s # <<>> /\ s[Len(s)] = " "
             THEN RStrip(SubSeq(s, 1, Len(s) - 1)) ELSE s

\* str.strip()
Strip(s) == RStrip(LStrip(s))

\* str.startswith(prefix) for a one-token prefix
StartsWith(s, prefix) == s # <<>> /\ Head(s) = prefix

\* str.replace(tok, "")
RECURSIVE Remove(_, _)
Remove(s, tok) ==
    IF s = <<>> THEN <<>>
    ELSE IF Head(s) = tok THEN Remove(Tail(s), tok)
    ELSE <<Head(s)>> \o Remove(Tail(s), tok)

\* sub in s
Contains(s, sub) ==
    \E i \in 1..(Len(s) - Len(sub) + 1) : SubSeq(s, i, i + Len(sub) - 1) = sub

\* case folding of the tokens that have an upper-case form
LowerTok(t) == IF t = "SECRET" THEN "secret" ELSE t
Lower(s) == [i \in 1..Len(s) |-> LowerTok(s[i])]

\* str(n) of a small page number
Str(n) == <<"0", "1", "2", "3", "4", "5", "6", "7", "8", "9">>[n + 1]

\* float(text): the literals the rules use; anything else is a ValueError
ValueError == -1
Float(text) ==
    IF text = <<"0.5">> THEN 50
    ELSE IF text = <<"0.01">> THEN 1
    ELSE IF text = <<"0.3">> THEN 30
    ELSE ValueError

\* re.compile fails on an unbalanced parenthesis
ValidRegex(pattern) == \A i \in 1..Len(pattern) : pattern[i] # "("

\* bool(re.search(pattern, query, re.IGNORECASE)) for a literal pattern
ReSearch(pattern, query) == Contains(Lower(query), Lower(pattern))

\* ------------------------------------------------------------ policy.py
\* context.get(key, "")
ContextGet(context, key) ==
    IF \E e \in context : e.key = key
    THEN (CHOOSE e \in context : e.key = key).value
    ELSE <<>>

\* position of the first "=" token, 0 when there is none
FirstEq(kv) ==
    IF \E i \in 1..Len(kv) : kv[i] = "="
    THEN CHOOSE i \in 1..Len(kv) : kv[i] = "=" /\ \A j \in 1..(i - 1) : kv[j] # "="
    ELSE 0

\* PolicyEngine._check_condition raises re.error on an invalid pattern
ConditionRaises(rule) ==
    LET cond == Strip(rule.condition) IN
    /\ cond # <<"no_evidence">>
    /\ StartsWith(cond, "contains:")
    /\ ~ValidRegex(Strip(Drop(cond, 1)))

\* a min_score test that also matches a top score equal to the threshold
CheckCondition_AtMost(rule, query, evidence, context) ==
    LET cond == Strip(rule.condition) IN
    IF cond = <<"no_evidence">> THEN Len(evidence.results) = 0
    ELSE IF StartsWith(cond, "contains:")
         THEN ReSearch(Strip(Drop(cond, 1)), query)
    ELSE IF StartsWith(cond, "min_score:")
         THEN LET threshold == Float(Strip(Drop(cond, 1)))
                  top_score == IF evidence.results # <<>>
                               THEN evidence.results[1].score ELSE 0
              IN  IF threshold = ValueError THEN FALSE
                  ELSE top_score <= threshold
    ELSE IF StartsWith(cond, "context:")
         THEN LET kv == Strip(Drop(cond, 1))
                  eq == FirstEq(kv)
              IN  IF eq # 0
                  THEN ContextGet(context, Strip(SubSeq(kv, 1, eq - 1)))
                           = Strip(Drop(kv, eq))
                  ELSE FALSE
    ELSE FALSE

\* PolicyEngine._check_condition
CheckCondition(rule, query, evidence, context) ==
    LET cond == Strip(rule.condition) IN
    IF cond = <<"no_evidence">> THEN Len(evidence.results) = 0
    ELSE IF StartsWith(cond, "contains:")
         THEN ReSearch(Strip(Drop(cond, 1)), query)
    ELSE IF StartsWith(cond, "min_score:")
         THEN LET threshold == Float(Strip(Drop(cond, 1)))
                  top_score == IF evidence.results # <<>>
                               THEN evidence.results[1].score ELSE 0
              IN  IF threshold = ValueError THEN FALSE
                  ELSE top_score < threshold
    ELSE IF StartsWith(cond, "context:")
         THEN LET kv == Strip(Drop(cond, 1))
                  eq == FirstEq(kv)
              IN  IF eq # 0
                  THEN ContextGet(context, Strip(SubSeq(kv, 1, eq - 1)))
                           = Strip(Drop(kv, eq))
                  ELSE FALSE
    ELSE FALSE

PolicyEvaluation(rule, matched) ==
    [rule |-> rule, matched |-> matched,
     verdict |-> IF matched THEN rule.verdict ELSE "allow"]

\* an evaluation that gives every rule the outcome of the first rule of its name
Evaluate_FirstOfEachName(rs, query, evidence, context) ==
    LET ctx == IF context.given THEN context.entries ELSE {}
        first(i) == CHOOSE j \in 1..i :
                        /\ rs[j].name = rs[i].name
                        /\ \A k \in 1..(j - 1) : rs[k].name # rs[i].name
    IN
    [i \in 1..Len(rs) |->
        PolicyEvaluation(rs[i], CheckCondition(rs[first(i)], query, evidence, ctx))]

\* PolicyEngine.evaluate: the list of evaluations (when no condition raises)
Evaluate(rs, query, evidence, context) ==
    LET ctx == IF context.given THEN context.entries ELSE {} IN
    [i \in 1..Len(rs) |->
        PolicyEvaluation(rs[i], CheckCondition(rs[i], query, evidence, ctx))]

\* the first rule whose condition raises stops evaluate before its audit log
EvaluateRaises(rs) == \E i \in 1..Len(rs) : ConditionRaises(rs[i])

\* an aggregation in which the first matched rule that restricts decides
CheckAllowed_FirstMatch(evaluations) ==
    LET hits == {i \in 1..Len(evaluations) :
                    evaluations[i].matched /\ evaluations[i].verdict # "allow"}
    IN  IF hits = {} THEN "allow"
        ELSE evaluations[CHOOSE i \in hits : \A j \in hits : i <= j].verdict

\* PolicyEngine.check_allowed
CheckAllowed(evaluations) ==
    IF \E i \in 1..Len(evaluations) :
          evaluations[i].matched /\ evaluations[i].verdict = "deny"
    THEN "deny"
    ELSE IF \E i \in 1..Len(evaluations) :
          evaluations[i].matched /\ evaluations[i].verdict = "needs_approval"
    THEN "needs_approval"
    ELSE "allow"

\* ----------------------------------------------------------- logger.py
\* AuditLogger.log: the event appended to the in-memory list
AuditEvent(layer, event_type, payload, decision_id, actor) ==
    [layer |-> layer, event_type |-> event_type, payload |-> payload,
     decision_id |-> decision_id, actor |-> actor]

\* PolicyEngine.evaluate: its audit payload
EvaluationEvent(query, rs, evaluations) ==
    AuditEvent("reasoning", "policy_evaluation",
               [query |-> query,
                rules_checked |-> Len(rs),
                rules_matched |->
                    Cardinality({i \in 1..Len(evaluations) : evaluations[i].matched}),
                verdicts |-> [i \in 1..Len(evaluations) |-> evaluations[i].verdict]],
               NoId, "system")

\* ------------------------------------------------------------- agent.py
Decision(id, query, answer, results, evaluations, agent_state, model, auditor) ==
    [decision_id |-> id, query |-> query, answer |-> answer,
     evidence |-> results, policy_evaluations |-> evaluations,
     agent_state |-> agent_state, model_used |-> model, auditor_model |-> auditor]

\* ", ".join(f"[doc={c.doc_id}, page={c.page}]" for c in citations)
RECURSIVE JoinCitations(_)
JoinCitations(cits) ==
    IF cits = <<>> THEN <<>>
    ELSE <<"[doc=", Head(cits).doc_id, ", page=", Str(Head(cits).page), "]">>
         \o (IF Len(cits) > 1 THEN <<", ">> ELSE <<>>)
         \o JoinCitations(Tail(cits))

\* the fallback built from the last result instead of the top one
FallbackAnswer_LastResult(query, evidence) ==
    IF evidence.results = <<>> THEN NO_EVIDENCE_MSG
    ELSE LET top == evidence.results[Len(evidence.results)] IN
         <<"Based on available evidence ">> \o JoinCitations(top.citations)
            \o <<": ">> \o Take(top.text, FallbackTextLen)

\* DecisionAgent._fallback_answer
FallbackAnswer(query, evidence) ==
    IF evidence.results = <<>> THEN NO_EVIDENCE_MSG
    ELSE LET top == evidence.results[1] IN
         <<"Based on available evidence ">> \o JoinCitations(top.citations)
            \o <<": ">> \o Take(top.text, FallbackTextLen)

\* a denied decision that carries the default state of a Decision
DeniedDecision_DefaultState(id, query, evidence, evaluations) ==
    Decision(id, query, DENIED_MSG, evidence.results, evaluations, "completed", "", "")

\* decide, lines 73-79: the decision of a denied query
DeniedDecision(id, query, evidence, evaluations) ==
    Decision(id, query, DENIED_MSG, evidence.results, evaluations, "failed", "", "")

\* a decision that falls back when the reviewer failed
BuiltDecision_FallbackOnReviewFailure(id, l) ==
    Decision(id, l.query,
             IF l.review = "failed" THEN FallbackAnswer(l.query, l.evidence) ELSE l.answer,
             l.evidence.results, l.evaluations, "completed", ORCH_MODEL, AUDITOR_MODEL)

\* decide, lines 95-103
BuiltDecision(id, l) ==
    Decision(id, l.query, l.answer, l.evidence.results, l.evaluations,
             "completed", ORCH_MODEL, AUDITOR_MODEL)

\* decide, lines 109-115: model_dump with agent_state and answer replaced
WaitingDecision(decision, answer) ==
    [decision EXCEPT !.agent_state = "waiting_approval",
                     !.answer = <<MARK>> \o answer]

\* the pause taken without looking at enable_human_in_loop
NeedsPause_IgnoresFlag(verdict) == verdict = "needs_approval"

\* decide, line 106
NeedsPause(verdict) ==
    verdict = "needs_approval" /\ settings.enable_human_in_loop

\* the guard without the comparison of identifiers
IsPending_AnyId(decision_id) == pending # None

\* approve/reject, lines 136-139 and 162-165, negated
IsPending(decision_id) ==
    pending # None /\ pending.decision_id = decision_id

\* an approval that builds the decision anew and leaves the evidence out
ApprovedDecision_NoEvidence(p) ==
    [p EXCEPT !.agent_state = "completed", !.answer = Remove(p.answer, MARK),
              !.evidence = <<>>]

\* approve, lines 142-148
ApprovedDecision(p) ==
    [p EXCEPT !.agent_state = "completed", !.answer = Remove(p.answer, MARK)]

\* a rejection that keeps the generated answer
RejectedDecision_KeepsAnswer(p, reason) == [p EXCEPT !.agent_state = "failed"]

\* reject, lines 168-174
RejectedDecision(p, reason) ==
    [p EXCEPT !.agent_state = "failed",
              !.answer = IF reason # <<>> THEN <<"[REJECTED] ">> \o reason
                         ELSE <<"[REJECTED]">>]

\* override, lines 189-194
HumanOverride(decision_id, new_answer, reason) ==
    [decision_id |-> decision_id, original_answer |-> <<>>,
     overridden_answer |-> new_answer, reason |-> reason]

\* log_override without the decision_id argument
OverrideEvent_NoDecisionId(override) ==
    AuditEvent("reasoning", "human_override", override, NoId, "human")

\* AuditLogger.log_override
OverrideEvent(override) ==
    AuditEvent("reasoning", "human_override", override, override.decision_id, "human")

IdleCoro == [pc |-> "idle"]
InFlight == {c \in Coroutines : coro[c].pc # "idle"}

\* what decide hands back, with the circumstances of the call
DecideResult(c, l, decision) ==
    [op |-> "decide", value |-> decision, verdict |-> l.verdict,
     query |-> l.query, evidence |-> l.evidence,
     gen |-> l.gen, generated |-> l.answer, review |-> l.review]

\* a decide that empties the pending slot when it completes
Build_ClearsPending(c, l, audit_result, evs) ==
    LET decision == BuiltDecision(nextId, l)
        payload == [query |-> l.query, audit_result |-> audit_result]
    IN
    /\ IF NeedsPause(l.verdict)
       THEN LET waiting == WaitingDecision(decision, l.answer)
            IN /\ state' = "waiting_approval"
               /\ pending' = decision
               /\ events' = Append(evs, AuditEvent("reasoning",
                                "decision_pending_approval", payload,
                                waiting.decision_id, "system"))
               /\ returned' = returned @@ (nextId :> waiting)
               /\ result' = DecideResult(c, l, waiting)
       ELSE /\ state' = "completed"
            /\ pending' = None
            /\ events' = Append(evs, AuditEvent("reasoning",
                                "decision_completed", payload,
                                decision.decision_id, "system"))
            /\ returned' = returned @@ (nextId :> decision)
            /\ result' = DecideResult(c, l, decision)
    /\ nextId' = nextId + 1
    /\ coro' = [coro EXCEPT ![c] = IdleCoro]

\* decide, steps 5-7 (lines 94-132): build the decision, pause or complete
Build(c, l, audit_result, evs) ==
    LET decision == BuiltDecision(nextId, l)
        payload == [query |-> l.query, audit_result |-> audit_result]
    IN
    /\ IF NeedsPause(l.verdict)
       THEN LET waiting == WaitingDecision(decision, l.answer)
            IN /\ state' = "waiting_approval"
               /\ pending' = decision
               /\ events' = Append(evs, AuditEvent("reasoning",
                                "decision_pending_approval", payload,
                                waiting.decision_id, "system"))
               /\ returned' = returned @@ (nextId :> waiting)
               /\ result' = DecideResult(c, l, waiting)
       ELSE /\ state' = "completed"
            /\ pending' = pending
            /\ events' = Append(evs, AuditEvent("reasoning",
                                "decision_completed", payload,
                                decision.decision_id, "system"))
            /\ returned' = returned @@ (nextId :> decision)
            /\ result' = DecideResult(c, l, decision)
    /\ nextId' = nextId + 1
    /\ coro' = [coro EXCEPT ![c] = IdleCoro]

\* decide, step 4 (line 92) with _call_auditor up to its request
CallAuditor(c, l, evs, st) ==
    IF ~settings.auditor_key
    THEN /\ revCalls' = revCalls
         /\ Build(c, [l EXCEPT !.review = "no_key"], "audit_skipped:no_api_key", evs)
    ELSE /\ revCalls' = revCalls + 1
         /\ coro' = [coro EXCEPT ![c] = [l EXCEPT !.pc = "await_auditor"]]
         /\ state' = st
         /\ events' = evs
         /\ result' = NoResult
         /\ UNCHANGED <<pending, nextId, returned>>

\* decide, step 3 (line 89) with _call_orchestrator up to its request
CallOrchestrator(c, l, evs, st) ==
    IF ~settings.orchestrator_key
    THEN /\ genCalls' = genCalls
         /\ CallAuditor(c, [l EXCEPT !.gen = "no_key",
                                     !.answer = FallbackAnswer(l.query, l.evidence)],
                        evs, st)
    ELSE /\ genCalls' = genCalls + 1
         /\ revCalls' = revCalls
         /\ coro' = [coro EXCEPT ![c] = [l EXCEPT !.pc = "await_orchestrator"]]
         /\ state' = st
         /\ events' = evs
         /\ result' = NoResult
         /\ UNCHANGED <<pending, nextId, returned>>

\* decide, lines 64-89: evaluate the policies, deny or go on to generation
DecideStart(c, query, evidence, context) ==
    /\ coro[c].pc = "idle"
    /\ \A d \in Coroutines : d < c => coro[d].pc # "idle"   \* the first free slot
    /\ nextId + Cardinality(InFlight) <= MaxDecides
    /\ UNCHANGED <<rules, settings, overrides, learningVars, threadVars, knowledgeVars>>
    /\ IF EvaluateRaises(rules)
       THEN /\ state' = "running"
            /\ result' = [op |-> "decide", value |-> Raised]
            /\ UNCHANGED <<pending, events, coro, nextId, genCalls, revCalls, returned>>
       ELSE LET evaluations == Evaluate(rules, query, evidence, context)
                aggregate_verdict == CheckAllowed(evaluations)
                evs == Append(events, EvaluationEvent(query, rules, evaluations))
                l == [pc |-> "start", query |-> query, evidence |-> evidence,
                      evaluations |-> evaluations, verdict |-> aggregate_verdict,
                      answer |-> <<>>, gen |-> "none", review |-> "none"]
            IN
            IF aggregate_verdict = "deny"
            THEN LET decision == DeniedDecision(nextId, query, evidence, evaluations)
                 IN /\ state' = "failed"
                    /\ events' = Append(evs, AuditEvent("reasoning", "decision_denied",
                                          [query |-> query], decision.decision_id, "system"))
                    /\ nextId' = nextId + 1
                    /\ returned' = returned @@ (nextId :> decision)
                    /\ result' = DecideResult(c, l, decision)
                    /\ UNCHANGED <<pending, coro, genCalls, revCalls>>
            ELSE CallOrchestrator(c, l, evs, "running")

\* what the generator's HTTP exchange can come to
GenOutcomes == {[ok |-> TRUE, text |-> t] : t \in GenTexts}
                   \cup {[ok |-> FALSE, text |-> <<>>]}

\* _call_orchestrator, lines 230-235, then decide from line 92 on
OrchestratorResponse(c, outcome) ==
    /\ coro[c].pc = "await_orchestrator"
    /\ LET l == coro[c]
           answer == IF outcome.ok THEN outcome.text
                     ELSE FallbackAnswer(l.query, l.evidence)
       IN CallAuditor(c, [l EXCEPT !.answer = answer,
                                   !.gen = IF outcome.ok THEN "ok" ELSE "failed"],
                      events, state)
    /\ UNCHANGED <<rules, settings, overrides, genCalls, learningVars, threadVars, knowledgeVars>>

\* what the reviewer's HTTP exchange can come to
ReviewOutcomes == {[ok |-> TRUE, text |-> t] : t \in ReviewTexts}
                      \cup {[ok |-> FALSE, text |-> ""]}

\* _call_auditor, lines 266-271, then decide from line 94 on
AuditorResponse(c, outcome) ==
    /\ coro[c].pc = "await_auditor"
    /\ LET l == coro[c]
           audit_result == IF outcome.ok THEN outcome.text
                           ELSE "audit_skipped:api_error"
       IN Build(c, [l EXCEPT !.review = IF outcome.ok THEN "ok" ELSE "failed"],
                audit_result, events)
    /\ UNCHANGED <<rules, settings, overrides, genCalls, revCalls, learningVars, threadVars, knowledgeVars>>

\* DecisionAgent.approve
Approve(decision_id) ==
    /\ UNCHANGED <<rules, settings, coro, nextId, genCalls, revCalls, overrides, returned,
                   learningVars, threadVars, knowledgeVars>>
    /\ IF ~IsPending(decision_id)
       THEN /\ result' = [op |-> "approve", value |-> None]
            /\ UNCHANGED <<state, pending, events>>
       ELSE LET approved == ApprovedDecision(pending)
            IN /\ state' = "completed"
               /\ pending' = None
               /\ events' = Append(events, AuditEvent("reasoning", "decision_approved",
                                     EmptyPayload, approved.decision_id, "human"))
               /\ result' = [op |-> "approve", id |-> decision_id, value |-> approved]

\* DecisionAgent.reject
Reject(decision_id, reason) ==
    /\ UNCHANGED <<rules, settings, coro, nextId, genCalls, revCalls, overrides, returned,
                   learningVars, threadVars, knowledgeVars>>
    /\ IF ~IsPending(decision_id)
       THEN /\ result' = [op |-> "reject", value |-> None]
            /\ UNCHANGED <<state, pending, events>>
       ELSE LET rejected == RejectedDecision(pending, reason)
            IN /\ state' = "failed"
               /\ pending' = None
               /\ events' = Append(events, AuditEvent("reasoning", "decision_rejected",
                                     [reason |-> reason], rejected.decision_id, "human"))
               /\ result' = [op |-> "reject", id |-> decision_id, reason |-> reason,
                             value |-> rejected]

\* DecisionAgent.override with AuditLogger.log_override
Override(decision_id, new_answer, reason) ==
    /\ overrides < MaxOverrides
    /\ LET override_record == HumanOverride(decision_id, new_answer, reason)
       IN /\ events' = Append(events, OverrideEvent(override_record))
          /\ result' = [op |-> "override", value |-> override_record]
    /\ overrides' = overrides + 1
    /\ UNCHANGED <<rules, state, pending, settings, coro, nextId, genCalls, revCalls,
                   returned, learningVars, threadVars, knowledgeVars>>

\* ---------------------------------------------------- learning/feedback.py
\* models/domain.py: OutcomeRating, its members and their values
OutcomeRating == {"CORRECT", "PARTIALLY_CORRECT", "INCORRECT", "HALLUCINATION"}

\* rating.value
RatingValue(rating) ==
    CASE rating = "CORRECT" -> "correct"
      [] rating = "PARTIALLY_CORRECT" -> "partially_correct"
      [] rating = "INCORRECT" -> "incorrect"
      [] rating = "HALLUCINATION" -> "hallucination"

\* OutcomeRating(value): the member a serialized value is parsed to
RatingOf(value) == CHOOSE rating \in OutcomeRating : RatingValue(rating) = value

\* the original loop and the loop of the process that starts after it
LoopIds == {1, 2}

FeedbackRecord(id, decision_id, rating, corrected_answer, explanation) ==
    [feedback_id |-> id, decision_id |-> decision_id, rating |-> rating,
     corrected_answer |-> corrected_answer, explanation |-> explanation]

\* parameters are as the code writes them: the threshold in tenths
LearningAdjustment(trigger, adjustment_type, parameters) ==
    [trigger_feedback_id |-> trigger, adjustment_type |-> adjustment_type,
     parameters |-> parameters]

\* Counter(): a key that was never incremented counts 0
EmptyCounter == [incorrect |-> 0, hallucination |-> 0]

\* LearningLoop.__init__
NewLoop == [feedback |-> <<>>, adjustments |-> <<>>, mistake_counts |-> EmptyCounter]

\* savedLen: records held at the last save; baseLen: records held at the save
\* the last load read; loadedLen: records that load brought back
NoMarks == [saves |-> 0, savedLen |-> 0, loads |-> 0, loadedLen |-> 0, baseLen |-> 0]

\* a counter that takes a partially correct answer for an incorrect one
CountMistake_PartialIsMistake(counts, rating) ==
    IF rating = "INCORRECT" \/ rating = "PARTIALLY_CORRECT"
    THEN [counts EXCEPT !.incorrect = @ + 1]
    ELSE IF rating = "HALLUCINATION" THEN [counts EXCEPT !.hallucination = @ + 1]
    ELSE counts

\* record_feedback, lines 55-56
CountMistake(counts, rating) ==
    IF rating = "INCORRECT" THEN [counts EXCEPT !.incorrect = @ + 1]
    ELSE IF rating = "HALLUCINATION" THEN [counts EXCEPT !.hallucination = @ + 1]
    ELSE counts

\* the adjustment whose threshold does not grow with the count
RetrievalWeight_FixedStep(feedback, hallucinations) ==
    LearningAdjustment(feedback.feedback_id, "retrieval_weight",
                       [min_score_threshold |-> 1])

\* _check_for_adjustments, lines 129-137: 0.1 * (hallucinations // 3), in tenths
RetrievalWeight(feedback, hallucinations) ==
    LearningAdjustment(feedback.feedback_id, "retrieval_weight",
                       [min_score_threshold |-> hallucinations \div 3])

\* _check_for_adjustments, lines 147-155
PromptPatch(feedback) ==
    LearningAdjustment(feedback.feedback_id, "prompt_patch",
                       [patch |-> "require_exact_citation"])

\* _check_for_adjustments: the adjustments it appends, given the counters
\* as record_feedback has just left them
CheckForAdjustments(counts, feedback) ==
    (IF counts.hallucination > 0 /\ counts.hallucination % 3 = 0
     THEN <<RetrievalWeight(feedback, counts.hallucination)>> ELSE <<>>)
    \o
    (IF counts.incorrect > 0 /\ counts.incorrect % 5 = 0
     THEN <<PromptPatch(feedback)>> ELSE <<>>)

\* record_feedback: the loop after the call
Recorded(l, feedback) ==
    LET counts == CountMistake(l.mistake_counts, feedback.rating) IN
    [feedback |-> Append(l.feedback, feedback),
     adjustments |-> l.adjustments \o CheckForAdjustments(counts, feedback),
     mistake_counts |-> counts]

\* record_feedback and _check_for_adjustments: the audit events of the call
FeedbackEvents(l, feedback) ==
    LET counts == CountMistake(l.mistake_counts, feedback.rating)
        created == CheckForAdjustments(counts, feedback)
    IN
    <<AuditEvent("learning", "feedback_recorded",
                 [decision_id |-> feedback.decision_id,
                  rating |-> RatingValue(feedback.rating),
                  has_correction |-> feedback.corrected_answer # <<>>],
                 feedback.decision_id, "system")>>
    \o [k \in 1..Len(created) |->
           AuditEvent("learning", "adjustment_created", created[k], NoId, "system")]

\* a grading that looks at the evidence before it looks for a partial match
EvaluatedRating_EvidenceFirst(decision, expected) ==
    LET answer == Strip(Lower(decision.answer))
        expected_lower == Strip(Lower(expected))
    IN
    IF answer = expected_lower THEN "CORRECT"
    ELSE IF decision.evidence = <<>> THEN "HALLUCINATION"
    ELSE IF Contains(answer, expected_lower) \/ Contains(expected_lower, answer)
         THEN "PARTIALLY_CORRECT"
    ELSE "INCORRECT"

\* evaluate_decision, lines 82-92
EvaluatedRating(decision, expected) ==
    LET answer == Strip(Lower(decision.answer))
        expected_lower == Strip(Lower(expected))
    IN
    IF answer = expected_lower THEN "CORRECT"
    ELSE IF Contains(answer, expected_lower) \/ Contains(expected_lower, answer)
         THEN "PARTIALLY_CORRECT"
    ELSE IF decision.evidence = <<>> THEN "HALLUCINATION"
    ELSE "INCORRECT"

\* round(num / den, 4) in ten-thousandths, ties to the even digit
Round4(num, den) ==
    LET q == (num * 10000) \div den
        r == (num * 10000) % den
    IN  IF 2 * r > den THEN q + 1
        ELSE IF 2 * r < den THEN q
        ELSE IF q % 2 = 0 THEN q ELSE q + 1

\* counts[value] over the feedback list
CountRating(fs, rating) == Cardinality({k \in 1..Len(fs) : fs[k].rating = rating})

\* an accuracy in which a partially correct answer counts as a correct one
Accuracy_PartialAsCorrect(correct, partial, total) ==
    Round4(2 * correct + 2 * partial, 2 * total)

\* compute_accuracy, line 118: (correct + 0.5 * partial) / total
Accuracy(correct, partial, total) == Round4(2 * correct + partial, 2 * total)

\* compute_accuracy: what it returns; breakdown holds 0 for a rating it has no key for
AccuracyReport(l) ==
    LET total == Len(l.feedback) IN
    IF total = 0
    THEN [total |-> 0, accuracy |-> 0, breakdown |-> [v \in {} |-> 0]]
    ELSE [total |-> total,
          accuracy |-> Accuracy(CountRating(l.feedback, "CORRECT"),
                                CountRating(l.feedback, "PARTIALLY_CORRECT"), total),
          breakdown |-> [v \in {RatingValue(l.feedback[k].rating) :
                                    k \in 1..Len(l.feedback)} |->
                            CountRating(l.feedback, RatingOf(v))]]

\* model_dump(mode="json") of a FeedbackRecord: the rating becomes its value
DumpFeedback(f) == [f EXCEPT !.rating = RatingValue(f.rating)]

\* FeedbackRecord(**f)
LoadFeedback(d) == [d EXCEPT !.rating = RatingOf(d.rating)]

\* save_state, lines 169-173: the content of the file
DumpedState(l) ==
    [feedback |-> [k \in 1..Len(l.feedback) |-> DumpFeedback(l.feedback[k])],
     adjustments |-> l.adjustments,
     mistake_counts |-> l.mistake_counts]

\* a restart that brings the records back and starts the counters anew
LoadedState_NoCounters(file) ==
    [feedback |-> [k \in 1..Len(file.feedback) |-> LoadFeedback(file.feedback[k])],
     adjustments |-> file.adjustments,
     mistake_counts |-> EmptyCounter]

\* load_state, lines 189-191
LoadedState(file) ==
    [feedback |-> [k \in 1..Len(file.feedback) |-> LoadFeedback(file.feedback[k])],
     adjustments |-> file.adjustments,
     mistake_counts |-> file.mistake_counts]

\* DecisionAgent.__init__, PolicyEngine.__init__, AuditLogger.__init__
Init ==
    /\ rules \in RuleLists
    /\ state = "running"
    /\ pending = None
    /\ events = <<>>
    /\ settings \in SettingsSet
    /\ coro = [c \in Coroutines |-> IdleCoro]
    /\ nextId = 1
    /\ genCalls = 0
    /\ revCalls = 0
    /\ overrides = 0
    /\ returned = <<>>
    /\ result = NoResult
    /\ loops = [i \in LoopIds |-> NewLoop]
    /\ state_file = None
    /\ marks = NoMarks
    /\ chunks = <<>>
    /\ doc_ids = {}
    /\ threads = [t \in Threads |-> IdleThread]
    /\ audit_file = <<>>

Next ==
    \/ \E c \in Coroutines, in \in DecideInputs :
          DecideStart(c, in.query, in.evidence, in.context)
    \/ \E c \in Coroutines, o \in GenOutcomes : OrchestratorResponse(c, o)
    \/ \E c \in Coroutines, o \in ReviewOutcomes : AuditorResponse(c, o)
    \/ \E id \in DecisionIds : Approve(id)
    \/ \E id \in DecisionIds, reason \in Reasons : Reject(id, reason)
    \/ \E id \in OverrideIds, a \in NewAnswers, reason \in OverrideReasons :
          Override(id, a, reason)

Spec == Init /\ [][Next]_vars

\* ------------------------------------------------- the learning loop alone
\* the decisions handed to evaluate_decision, each with the expected answer
EvaluateInputs ==
    { [decision |-> Decision(1, <<"q">>, <<"SECRET", " ">>, <<>>, <<>>,
                             "completed", ORCH_MODEL, AUDITOR_MODEL),
       expected |-> <<"secret">>],
      [decision |-> Decision(1, <<"q">>, <<"the", "secret", "plan">>, <<>>, <<>>,
                             "completed", ORCH_MODEL, AUDITOR_MODEL),
       expected |-> <<"secret">>],
      [decision |-> Decision(1, <<"q">>, <<"secret">>, <<>>, <<>>,
                             "completed", ORCH_MODEL, AUDITOR_MODEL),
       expected |-> <<"the", "SECRET", "plan">>],
      [decision |-> Decision(1, <<"q">>, <<"wind">>, <<>>, <<>>,
                             "completed", ORCH_MODEL, AUDITOR_MODEL),
       expected |-> <<"solar">>],
      [decision |-> Decision(1, <<"q">>, <<"wind">>,
                             <<RetrievalResult("c1", <<"solar", "energy">>, 90,
                                               <<Citation("d1", 1)>>)>>,
                             <<>>, "completed", ORCH_MODEL, AUDITOR_MODEL),
       expected |-> <<"solar">>] }

\* the feedback a caller builds for decision 1: a fresh identifier, no texts
NewFeedback(i, rating) ==
    FeedbackRecord(Len(loops[i].feedback) + 1, 1, rating, <<>>, <<>>)

\* feedback records that evaluate_decision built
Evaluated(l) == {k \in 1..Len(l.feedback) : l.feedback[k].explanation # <<>>}

\* LearningLoop.record_feedback with _check_for_adjustments
RecordFeedback(i, feedback) ==
    /\ Len(loops[i].feedback) < MaxFeedback
    /\ loops' = [loops EXCEPT ![i] = Recorded(loops[i], feedback)]
    /\ events' = events \o FeedbackEvents(loops[i], feedback)
    /\ result' = [op |-> "record_feedback", loop |-> i, value |-> feedback]
    /\ UNCHANGED <<rules, agentVars, knowledgeVars, threadVars, state_file, marks>>

\* LearningLoop.evaluate_decision, which ends in record_feedback
EvaluateDecision(i, decision, expected) ==
    /\ Len(loops[i].feedback) < MaxFeedback
    /\ Cardinality(Evaluated(loops[i])) < MaxEvaluations
    /\ LET rating == EvaluatedRating(decision, expected)
           feedback == FeedbackRecord(Len(loops[i].feedback) + 1,
                           decision.decision_id, rating,
                           IF rating # "CORRECT" THEN expected ELSE <<>>,
                           <<"Automated evaluation: ", RatingValue(rating)>>)
       IN /\ loops' = [loops EXCEPT ![i] = Recorded(loops[i], feedback)]
          /\ events' = events \o FeedbackEvents(loops[i], feedback)
          /\ result' = [op |-> "evaluate_decision", loop |-> i,
                        decision |-> decision, expected |-> expected,
                        value |-> feedback]
    /\ UNCHANGED <<rules, agentVars, knowledgeVars, threadVars, state_file, marks>>

\* LearningLoop.compute_accuracy
ComputeAccuracy(i) ==
    /\ result' = [op |-> "compute_accuracy", loop |-> i,
                  value |-> AccuracyReport(loops[i])]
    /\ UNCHANGED <<rules, events, agentVars, learningVars, threadVars, knowledgeVars>>

\* LearningLoop.save_state
SaveState(i) ==
    /\ marks.saves < MaxSaves
    /\ state_file' = DumpedState(loops[i])
    /\ marks' = [marks EXCEPT !.saves = @ + 1, !.savedLen = Len(loops[i].feedback)]
    /\ result' = [op |-> "save_state", loop |-> i, value |-> "state.json"]
    /\ UNCHANGED <<rules, events, agentVars, knowledgeVars, threadVars, loops>>

\* LearningLoop.load_state
LoadState(i) ==
    /\ marks.loads < MaxLoads
    /\ IF state_file = None
       THEN /\ result' = [op |-> "load_state", loop |-> i, value |-> FALSE]
            /\ UNCHANGED <<loops, marks>>
       ELSE /\ loops' = [loops EXCEPT ![i] = LoadedState(state_file)]
            /\ marks' = [marks EXCEPT !.loads = @ + 1,
                                      !.loadedLen = Len(loops'[i].feedback),
                                      !.baseLen = marks.savedLen]
            /\ result' = [op |-> "load_state", loop |-> i, value |-> TRUE]
    /\ UNCHANGED <<rules, events, agentVars, knowledgeVars, threadVars, state_file>>

\* the agent, the policy engine and the audit log as construction leaves them
AgentIdle ==
    /\ state = "running"
    /\ pending = None
    /\ settings = [enable_human_in_loop |-> TRUE,
                   orchestrator_key |-> FALSE, auditor_key |-> FALSE]
    /\ coro = [c \in Coroutines |-> IdleCoro]
    /\ nextId = 1
    /\ genCalls = 0
    /\ revCalls = 0
    /\ overrides = 0
    /\ returned = <<>>

\* LearningLoop.__init__ with no state file on disk
LearningInit ==
    /\ AgentIdle
    /\ rules = <<>>
    /\ events = <<>>
    /\ result = NoResult
    /\ loops = [i \in LoopIds |-> NewLoop]
    /\ state_file = None
    /\ marks = NoMarks
    /\ chunks = <<>>
    /\ doc_ids = {}
    /\ threads = [t \in Threads |-> IdleThread]
    /\ audit_file = <<>>

LearningNext ==
    \/ \E rating \in OutcomeRating : RecordFeedback(1, NewFeedback(1, rating))
    \/ \E in \in EvaluateInputs : EvaluateDecision(1, in.decision, in.expected)
    \/ ComputeAccuracy(1)

LearningSpec == LearningInit /\ [][LearningNext]_vars

\* ------------------------------------- the learning loop across a restart
\* the ratings recorded around a restart: the two that are counted, one that is not
PersistRatings == {"CORRECT", "INCORRECT", "HALLUCINATION"}

\* feedback the original loop got after the save that the restored loop read
SinceSave == Len(loops[1].feedback) - marks.baseLen

\* feedback the restored loop got after it loaded
SinceLoad == Len(loops[2].feedback) - marks.loadedLen

\* the next record the restored loop has yet to be given, if there is one
NextToReplay ==
    IF marks.loads > 0 /\ SinceLoad < SinceSave
    THEN {loops[1].feedback[marks.baseLen + SinceLoad + 1]}
    ELSE {}

\* loop 1 records feedback and saves; loop 2 is the fresh loop that loads the
\* file and is given the feedback loop 1 got after saving
PersistNext ==
    \/ \E rating \in PersistRatings :
          /\ Len(loops[1].feedback) < MaxRestartFeedback
          /\ RecordFeedback(1, NewFeedback(1, rating))
    \/ SaveState(1)
    \/ LoadState(2)
    \/ \E feedback \in NextToReplay : RecordFeedback(2, feedback)

PersistSpec == LearningInit /\ [][PersistNext]_vars

\* ------------------------------------------------- the policy engine alone
\* rules of every kind of condition, two of them under one name
PolicyCatalog ==
    { PolicyRule("no_evidence", <<"no_evidence">>, "needs_approval"),
      PolicyRule("secret", <<"contains:", "secret">>, "deny"),
      PolicyRule("broken", <<"contains:", "(">>, "deny"),
      PolicyRule("low_confidence", <<"min_score:", "0.3">>, "needs_approval"),
      PolicyRule("bad_threshold", <<"min_score:", "abc">>, "deny"),
      PolicyRule("admin_only", <<"context:", "role", "=", "admin">>, "deny"),
      PolicyRule("empty_value", <<"context:", "role", "=">>, "deny"),
      PolicyRule("no_equals", <<"context:", "role">>, "deny"),
      PolicyRule("unknown", <<"unknown:", "x">>, "deny"),
      PolicyRule("empty", <<>>, "deny"),
      PolicyRule("dup", <<" ", "no_evidence", " ">>, "deny"),
      PolicyRule("dup", <<"contains:", "wind">>, "needs_approval") }

\* evaluate's arguments; evidence is in the order retrieve returns it, best first
PolicyInputs ==
    { [query |-> <<"the", "SECRET", "plan">>, evidence |-> RetrievalResponse(<<>>),
       context |-> NoContext],
      [query |-> <<"what", "is", "wind">>,
       evidence |-> RetrievalResponse(
           <<RetrievalResult("c2", <<"wind", "power">>, 30, <<Citation("d1", 2)>>),
             RetrievalResult("c1", <<"solar", "energy">>, 10, <<Citation("d1", 1)>>)>>),
       context |-> [given |-> TRUE,
                    entries |-> {[key |-> <<"role">>, value |-> <<"admin">>]}]],
      [query |-> <<"what", "is", "wind">>,
       evidence |-> RetrievalResponse(
           <<RetrievalResult("c2", <<"wind", "power">>, 20, <<Citation("d1", 2)>>)>>),
       context |-> [given |-> TRUE, entries |-> {}]],
      [query |-> <<"what", "is", "solar">>,
       evidence |-> RetrievalResponse(
           <<RetrievalResult("c1", <<"solar", "energy">>, 90, <<Citation("d1", 1)>>),
             RetrievalResult("c2", <<"wind", "power">>, 30, <<Citation("d1", 2)>>)>>),
       context |-> [given |-> TRUE,
                    entries |-> {[key |-> <<"role">>, value |-> <<"user">>]}]] }

\* PolicyEngine.add_rule
AddRule(rule) ==
    /\ Len(rules) < MaxRules
    /\ rules' = Append(rules, rule)
    /\ result' = [op |-> "add_rule", value |-> None]
    /\ UNCHANGED <<events, agentVars, learningVars, threadVars, knowledgeVars>>

\* PolicyEngine.evaluate
PolicyEvaluate(query, evidence, context) ==
    /\ Len(events) < MaxEvaluates
    /\ IF EvaluateRaises(rules)
       THEN /\ result' = [op |-> "evaluate", query |-> query, evidence |-> evidence,
                          context |-> context, raised |-> TRUE, value |-> <<>>]
            /\ events' = events
       ELSE LET evaluations == Evaluate(rules, query, evidence, context)
            IN /\ events' = Append(events, EvaluationEvent(query, rules, evaluations))
               /\ result' = [op |-> "evaluate", query |-> query, evidence |-> evidence,
                             context |-> context, raised |-> FALSE,
                             value |-> evaluations]
    /\ UNCHANGED <<rules, agentVars, learningVars, threadVars, knowledgeVars>>

\* PolicyEngine.__init__
PolicyInit == LearningInit

PolicyNext ==
    \/ \E rule \in PolicyCatalog : AddRule(rule)
    \/ \E in \in PolicyInputs : PolicyEvaluate(in.query, in.evidence, in.context)

PolicySpec == PolicyInit /\ [][PolicyNext]_vars

\* ------------------------------------------- check_allowed on its own input
\* evaluations as a caller can build them: any verdict, matched or not
BuiltEvaluations ==
    [rule : {PolicyRule("r", <<"no_evidence">>, "deny")},
     matched : BOOLEAN, verdict : PolicyVerdict]

EvaluationLists == UNION {[1..n -> BuiltEvaluations] : n \in 0..MaxListLen}

\* PolicyEngine.check_allowed, called with a list of the caller's
CheckAllowedCall(evaluations) ==
    /\ result' = [op |-> "check_allowed", evaluations |-> evaluations,
                  value |-> CheckAllowed(evaluations)]
    /\ UNCHANGED <<rules, events, agentVars, learningVars, threadVars, knowledgeVars>>

AggregateNext == \E evaluations \in EvaluationLists : CheckAllowedCall(evaluations)

AggregateSpec == PolicyInit /\ [][AggregateNext]_vars

\* ------------------------------------------------- knowledge/retriever.py
\* A text is a sequence of words and sentence breaks. BREAK is ". ", the
\* separator _split_text searches for; two adjacent words are one space
\* apart. The texts hold no newline and a break stands between two words.
\* A term, one piece of str.split(), is a word alone or a word with the
\* full stop of the break that follows it.
\* Retrieval scores are millionths; a returned score is ten-thousandths.
BREAK == ". "

IsWord(tok) == tok # BREAK /\ tok # " "

\* len(tok) of the words of the documents and the queries
Width(tok) ==
    CASE tok = BREAK -> 2
      [] tok = " " -> 1
      [] tok \in {"wind", "farm"} -> 4
      [] tok \in {"solar", "power", "zebra"} -> 5
      [] tok = "energy" -> 6
      [] tok \in {"lorem300", "ipsum300"} -> 300
      [] tok = "dolor501" -> 501

\* len(text)
RECURSIVE Chars(_)
Chars(text) ==
    IF text = <<>> THEN 0
    ELSE Width(Head(text))
         + (IF Len(text) > 1 /\ IsWord(text[1]) /\ IsWord(text[2]) THEN 1 ELSE 0)
         + Chars(Tail(text))

\* text.split(sep) for a one-token separator
RECURSIVE SplitOn(_, _)
SplitOn(text, sep) ==
    IF \E i \in 1..Len(text) : text[i] = sep
    THEN LET i == CHOOSE k \in 1..Len(text) :
                      text[k] = sep /\ \A j \in 1..(k - 1) : text[j] # sep
         IN  <<SubSeq(text, 1, i - 1)>> \o SplitOn(SubSeq(text, i + 1, Len(text)), sep)
    ELSE <<text>>

\* one turn of the loop of _split_text over acc = (chunks, current)
SplitStep(acc, sentence, max_chars) ==
    LET candidate == IF acc.current # <<>>
                     THEN Strip(acc.current \o <<BREAK>> \o sentence)
                     ELSE sentence
    IN  IF Chars(candidate) > max_chars /\ acc.current # <<>>
        THEN [chunks |-> Append(acc.chunks, Strip(acc.current)), current |-> sentence]
        ELSE [chunks |-> acc.chunks, current |-> candidate]

RECURSIVE SplitLoop(_, _, _)
SplitLoop(acc, sentences, max_chars) ==
    IF sentences = <<>> THEN acc
    ELSE SplitLoop(SplitStep(acc, Head(sentences), max_chars), Tail(sentences), max_chars)

\* KnowledgeStore._split_text
SplitText(text, max_chars) ==
    IF Chars(text) <= max_chars THEN <<text>>
    ELSE LET acc == SplitLoop([chunks |-> <<>>, current |-> <<>>],
                              SplitOn(text, BREAK), max_chars)
             all == IF Strip(acc.current) # <<>>
                    THEN Append(acc.chunks, Strip(acc.current))
                    ELSE acc.chunks
         IN  IF all # <<>> THEN all ELSE <<text>>

\* models/domain.py: the fields of a document that indexing reads
ExtractedText(text, source_page) == [text |-> text, source_page |-> source_page]
ExtractedImage(image_id, page, description) ==
    [image_id |-> image_id, page |-> page, description |-> description]
DocumentIngestion(doc_id, texts, images) ==
    [doc_id |-> doc_id, texts |-> texts, images |-> images]

\* retriever.py: Chunk; a text chunk has no image, which is NoId
Chunk(chunk_id, doc_id, text, page, image_id, modality) ==
    [chunk_id |-> chunk_id, doc_id |-> doc_id, text |-> text, page |-> page,
     image_id |-> image_id, modality |-> modality]

\* f"{doc.doc_id}_t{i}_{added}" and f"{doc.doc_id}_img_{img.image_id}"
TextChunkId(doc_id, i, added) ==
    [doc |-> doc_id, kind |-> "t", block |-> i, added |-> added]
ImageChunkId(doc_id, image_id) == [doc |-> doc_id, kind |-> "img", image |-> image_id]

\* index_document: the chunks of text block i (counted from 0) when `added`
\* chunks have been appended before it
BlockChunks(doc, i, added) ==
    LET text_block == doc.texts[i + 1]
        subs == SplitText(text_block.text, MaxChars)
    IN  [k \in 1..Len(subs) |->
            Chunk(TextChunkId(doc.doc_id, i, added + k - 1), doc.doc_id, subs[k],
                  text_block.source_page, NoId, "text")]

\* index_document: its loop over doc.texts
RECURSIVE TextChunks(_, _, _)
TextChunks(doc, i, added) ==
    IF i >= Len(doc.texts) THEN <<>>
    ELSE LET block == BlockChunks(doc, i, added)
         IN  block \o TextChunks(doc, i + 1, added + Len(block))

\* an indexing that makes a chunk of every image, described or not
RECURSIVE ImageChunks_All(_, _)
ImageChunks_All(doc, images) ==
    IF images = <<>> THEN <<>>
    ELSE LET img == Head(images) IN
         <<Chunk(ImageChunkId(doc.doc_id, img.image_id), doc.doc_id,
                 img.description, img.page, img.image_id, "image")>>
         \o ImageChunks_All(doc, Tail(images))

\* index_document: its loop over doc.images, which skips an empty description
RECURSIVE ImageChunks(_, _)
ImageChunks(doc, images) ==
    IF images = <<>> THEN <<>>
    ELSE LET img == Head(images) IN
         (IF img.description # <<>>
          THEN <<Chunk(ImageChunkId(doc.doc_id, img.image_id), doc.doc_id,
                       img.description, img.page, img.image_id, "image")>>
          ELSE <<>>)
         \o ImageChunks(doc, Tail(images))

\* index_document: everything it appends to _chunks
IndexedChunks(doc) == TextChunks(doc, 0, 0) \o ImageChunks(doc, doc.images)

\* index_document: its audit event
IndexedEvent(doc, added) ==
    AuditEvent("knowledge", "document_indexed",
               [doc_id |-> doc.doc_id, chunks_added |-> added], NoId, "system")

\* str.split(): the terms of a text, in order
RECURSIVE Split(_)
Split(text) ==
    IF text = <<>> THEN <<>>
    ELSE IF ~IsWord(Head(text)) THEN Split(Tail(text))
    ELSE <<IF Len(text) > 1 /\ text[2] = BREAK
           THEN <<text[1], ".">> ELSE <<text[1]>> >> \o Split(Tail(text))

\* set(terms)
TermSet(terms) == {terms[i] : i \in 1..Len(terms)}

\* occurrences of t in a list of terms
Count(terms, t) == Cardinality({i \in 1..Len(terms) : terms[i] = t})

\* math.log(k) in ten-thousandths, k = 1..40
Ln(k) ==
    <<0, 6931, 10986, 13863, 16094, 17918, 19459, 20794, 21972, 23026,
      23979, 24849, 25649, 26391, 27081, 27726, 28332, 28904, 29444, 29957,
      30445, 30910, 31355, 31781, 32189, 32581, 32958, 33322, 33673, 34012,
      34340, 34657, 34965, 35264, 35553, 35835, 36109, 36376, 36636, 36889>>[k]

\* _bm25_score: doc_freq[t], which counts a chunk once for every occurrence
\* of t in the query
DocFreq(cs, query_terms, t) ==
    Count(query_terms, t)
    * Cardinality({i \in 1..Len(cs) : t \in TermSet(Split(Lower(cs[i].text)))})

\* sum(len(c.text.split()) for c in chunks)
RECURSIVE TotalLength(_)
TotalLength(cs) ==
    IF cs = <<>> THEN 0 ELSE Len(Split(Head(cs).text)) + TotalLength(Tail(cs))

\* a BM25 whose idf is log((n - df + 0.5) / (df + 0.5)), without the + 1.0
Bm25Term_PlainIdf(cs, query_terms, chunk_terms, t) ==
    LET n == Len(cs)
        tf == Count(chunk_terms, t)
        df == DocFreq(cs, query_terms, t)
        dl == Len(chunk_terms)
        total == TotalLength(cs)
    IN  IF tf = 0 \/ df = 0 \/ df > n THEN 0
        ELSE ((Ln(2 * n - 2 * df + 1) - Ln(2 * df + 1))
              * ((200000 * tf * total) \div (8 * tf * total + 3 * total + 9 * dl * n)))
             \div 100

\* _bm25_score: what one query term adds to the score of a chunk, with
\* k1 = 1.5 and b = 0.75. The idf is log((n + 1) / (df + 0.5)) and the
\* quotient is 20 tf T / (8 tf T + 3 T + 9 dl n), T the total length.
Bm25Term(cs, query_terms, chunk_terms, t) ==
    LET n == Len(cs)
        tf == Count(chunk_terms, t)
        df == DocFreq(cs, query_terms, t)
        dl == Len(chunk_terms)
        total == TotalLength(cs)
    IN  IF tf = 0 \/ df = 0 THEN 0
        ELSE ((Ln(2 * n + 2) - Ln(2 * df + 1))
              * ((200000 * tf * total) \div (8 * tf * total + 3 * total + 9 * dl * n)))
             \div 100

RECURSIVE Bm25Sum(_, _, _, _)
Bm25Sum(cs, query_terms, chunk_terms, rest) ==
    IF rest = <<>> THEN 0
    ELSE Bm25Term(cs, query_terms, chunk_terms, Head(rest))
         + Bm25Sum(cs, query_terms, chunk_terms, Tail(rest))

Scored(chunk, score) == [chunk |-> chunk, score |-> score]

\* _bm25_score: its loop over the chunks, from the chunks in rest on
RECURSIVE Bm25Loop(_, _, _)
Bm25Loop(cs, rest, query_terms) ==
    IF rest = <<>> THEN <<>>
    ELSE <<Scored(Head(rest),
                  IF query_terms = <<>> THEN 0
                  ELSE Bm25Sum(cs, query_terms, Split(Lower(Head(rest).text)),
                               query_terms))>>
         \o Bm25Loop(cs, Tail(rest), query_terms)

\* KnowledgeStore._bm25_score
Bm25Score(cs, query) == Bm25Loop(cs, cs, Split(Lower(query)))

\* _vector_score: its loop over the chunks
RECURSIVE VectorLoop(_, _)
VectorLoop(rest, query_terms) ==
    IF rest = <<>> THEN <<>>
    ELSE LET chunk_terms == TermSet(Split(Lower(Head(rest).text))) IN
         <<Scored(Head(rest),
                  IF query_terms = {} \/ chunk_terms = {} THEN 0
                  ELSE (1000000 * Cardinality(query_terms \cap chunk_terms))
                       \div Cardinality(query_terms \cup chunk_terms))>>
         \o VectorLoop(Tail(rest), query_terms)

\* KnowledgeStore._vector_score
VectorScore(cs, query) == VectorLoop(cs, TermSet(Split(Lower(query))))

\* sorted(key=score, reverse=True): equal scores keep their order
SortDesc(s) ==
    LET pos(i) == 1 + Cardinality({j \in 1..Len(s) : s[j].score > s[i].score})
                    + Cardinality({j \in 1..(i - 1) : s[j].score = s[i].score})
    IN  [k \in 1..Len(s) |-> s[CHOOSE i \in 1..Len(s) : pos(i) = k]]

\* a fusion that counts ranks from 0
RrfAdd_FromZero(dict, chunk, rank) ==
    IF \E i \in 1..Len(dict) : dict[i].chunk.chunk_id = chunk.chunk_id
    THEN LET i == CHOOSE k \in 1..Len(dict) : dict[k].chunk.chunk_id = chunk.chunk_id
         IN  [dict EXCEPT ![i] = Scored(chunk, @.score + 1000000 \div (RrfK + rank - 1))]
    ELSE Append(dict, Scored(chunk, 1000000 \div (RrfK + rank - 1)))

\* _rrf_fuse: scores[chunk_id] += 1 / (k + rank) on a dict kept in the order
\* its keys were first set
RrfAdd(dict, chunk, rank) ==
    IF \E i \in 1..Len(dict) : dict[i].chunk.chunk_id = chunk.chunk_id
    THEN LET i == CHOOSE k \in 1..Len(dict) : dict[k].chunk.chunk_id = chunk.chunk_id
         IN  [dict EXCEPT ![i] = Scored(chunk, @.score + 1000000 \div (RrfK + rank))]
    ELSE Append(dict, Scored(chunk, 1000000 \div (RrfK + rank)))

\* _rrf_fuse: its loop over one ranked list, from position rank on
RECURSIVE RrfList(_, _, _)
RrfList(dict, ranked_sorted, rank) ==
    IF rank > Len(ranked_sorted) THEN dict
    ELSE RrfList(RrfAdd(dict, ranked_sorted[rank].chunk, rank), ranked_sorted, rank + 1)

\* KnowledgeStore._rrf_fuse on the two lists retrieve gives it
RrfFuse(bm25_scores, vector_scores) ==
    RrfList(RrfList(<<>>, SortDesc(bm25_scores), 1), SortDesc(vector_scores), 1)

\* round(score, 4) of a score in millionths, ties to the even digit
RoundScore(score) ==
    LET q == score \div 100
        r == score % 100
    IN  IF r > 50 THEN q + 1
        ELSE IF r < 50 THEN q
        ELSE IF q % 2 = 0 THEN q ELSE q + 1

\* retrieve: the chunks with their scores, sorted (line 113)
SortedScores(cs, query, strategy) ==
    SortDesc(IF strategy = "bm25" THEN Bm25Score(cs, query)
             ELSE IF strategy = "vector" THEN VectorScore(cs, query)
             ELSE RrfFuse(Bm25Score(cs, query), VectorScore(cs, query)))

\* results that leave out only the chunks of negative score
RECURSIVE Results_NonNegative(_)
Results_NonNegative(top) ==
    IF top = <<>> THEN <<>>
    ELSE LET chunk == Head(top).chunk
             score == Head(top).score
         IN  (IF score < 0 THEN <<>>
              ELSE <<RetrievalResult(chunk.chunk_id, chunk.text, RoundScore(score),
                                     <<Citation(chunk.doc_id, chunk.page)>>)>>)
             \o Results_NonNegative(Tail(top))

\* results that carry no citation
RECURSIVE Results_Uncited(_)
Results_Uncited(top) ==
    IF top = <<>> THEN <<>>
    ELSE LET chunk == Head(top).chunk
             score == Head(top).score
         IN  (IF score <= 0 THEN <<>>
              ELSE <<RetrievalResult(chunk.chunk_id, chunk.text, RoundScore(score), <<>>)>>)
             \o Results_Uncited(Tail(top))

\* retrieve: the results built from scored[:top_k]
RECURSIVE Results(_)
Results(top) ==
    IF top = <<>> THEN <<>>
    ELSE LET chunk == Head(top).chunk
             score == Head(top).score
         IN  (IF score <= 0 THEN <<>>
              ELSE <<RetrievalResult(chunk.chunk_id, chunk.text, RoundScore(score),
                                     <<Citation(chunk.doc_id, chunk.page)>>)>>)
             \o Results(Tail(top))

\* a retrieve that answers an empty store with a placeholder of score 0
Retrieved_Placeholder(cs, query, top_k, strategy) ==
    IF cs = <<>>
    THEN RetrievalResponse(<<RetrievalResult(NoId, <<>>, 0, <<>>)>>)
    ELSE RetrievalResponse(Results(Take(SortedScores(cs, query, strategy), top_k)))

\* retrieve: the response it returns from a store cs
Retrieved(cs, query, top_k, strategy) ==
    IF cs = <<>> THEN RetrievalResponse(<<>>)
    ELSE RetrievalResponse(Results(Take(SortedScores(cs, query, strategy), top_k)))

\* retrieve: its audit event
RetrievalEvent(query, strategy, results) ==
    AuditEvent("knowledge", "retrieval",
               [query |-> query, strategy |-> strategy,
                results_count |-> Len(results),
                top_score |-> IF results # <<>> THEN results[1].score ELSE 0],
               NoId, "system")

\* ---------------------------------------------- the knowledge store alone
\* the documents handed to index_document: short blocks with a described
\* and an undescribed image, two blocks that share a word beside an empty
\* block, a document with nothing to index, a block of two long sentences,
\* and a block whose second sentence is longer than a chunk may be
Documents ==
    { DocumentIngestion("d1", <<ExtractedText(<<"wind">>, 1)>>,
                        <<ExtractedImage(1, 1, <<"wind">>),
                          ExtractedImage(2, 2, <<>>)>>),
      DocumentIngestion("d2",
                        <<ExtractedText(<<"wind", "wind", "wind", "farm">>, 1),
                          ExtractedText(<<"solar", "energy", BREAK, "wind", "power">>, 2),
                          ExtractedText(<<>>, 0)>>,
                        <<>>),
      DocumentIngestion("d3", <<>>, <<ExtractedImage(3, 1, <<>>)>>),
      DocumentIngestion("d4", <<ExtractedText(<<"lorem300", BREAK, "ipsum300">>, 1)>>,
                        <<>>),
      DocumentIngestion("d5", <<ExtractedText(<<"wind", BREAK, "dolor501">>, 3)>>,
                        <<>>) }

Queries == { <<>>, <<"wind">>, <<"zebra">>, <<"solar">>, <<"wind", "wind">> }
TopKs == {0, 1, 5}
Strategies == {"bm25", "vector", "hybrid"}

\* KnowledgeStore.index_document; every ingestion makes its document a new
\* identifier (models/domain.py, DocumentIngestion.doc_id)
IndexDocument(doc) ==
    /\ Cardinality(doc_ids) < MaxDocs
    /\ doc.doc_id \notin doc_ids
    /\ LET new == IndexedChunks(doc) IN
       /\ chunks' = chunks \o new
       /\ doc_ids' = doc_ids \cup {doc.doc_id}
       /\ events' = Append(events, IndexedEvent(doc, Len(new)))
       /\ result' = [op |-> "index_document", doc |-> doc, value |-> Len(new)]
    /\ UNCHANGED <<rules, agentVars, learningVars, threadVars>>

\* the retrieval events in the audit list
Retrievals == {i \in 1..Len(events) : events[i].event_type = "retrieval"}

\* KnowledgeStore.retrieve
Retrieve(query, top_k, strategy) ==
    /\ chunks # <<>> => Cardinality(Retrievals) < MaxRetrieves
    /\ LET response == Retrieved(chunks, query, top_k, strategy) IN
       /\ result' = [op |-> "retrieve", query |-> query, top_k |-> top_k,
                     strategy |-> strategy,
                     scored |-> IF chunks = <<>> THEN <<>>
                                ELSE SortedScores(chunks, query, strategy),
                     value |-> response]
       /\ events' = IF chunks = <<>> THEN events
                    ELSE Append(events,
                                RetrievalEvent(query, strategy, response.results))
    /\ UNCHANGED <<rules, agentVars, learningVars, threadVars, knowledgeVars>>

KnowledgeInit == LearningInit

KnowledgeNext ==
    \/ \E doc \in Documents : IndexDocument(doc)
    \/ \E query \in Queries, top_k \in TopKs, strategy \in Strategies :
           Retrieve(query, top_k, strategy)

KnowledgeSpec == KnowledgeInit /\ [][KnowledgeNext]_vars

\* ------------------------------------ the knowledge store, indexing again
\* a second ingestion handed in under the identifier of the first document
Reissued ==
    { DocumentIngestion("d1", <<ExtractedText(<<"solar", "power">>, 1)>>, <<>>) }

\* the index calls in the audit list
IndexCalls == {i \in 1..Len(events) : events[i].event_type = "document_indexed"}

\* KnowledgeStore.index_document for a document identifier the store has
\* seen: the chunks are appended again, the identifier set stays as it is
IndexAgain(doc) ==
    /\ Cardinality(IndexCalls) < MaxIndexCalls
    /\ doc.doc_id \in doc_ids
    /\ LET new == IndexedChunks(doc) IN
       /\ chunks' = chunks \o new
       /\ doc_ids' = doc_ids \cup {doc.doc_id}
       /\ events' = Append(events, IndexedEvent(doc, Len(new)))
       /\ result' = [op |-> "index_document", doc |-> doc, value |-> Len(new)]
    /\ UNCHANGED <<rules, agentVars, learningVars, threadVars>>

ReindexInit == KnowledgeInit

ReindexNext ==
    \/ \E doc \in Documents : IndexDocument(doc)
    \/ \E doc \in Documents \cup Reissued : IndexAgain(doc)
    \/ \E query \in Queries, top_k \in TopKs, strategy \in Strategies :
           Retrieve(query, top_k, strategy)

ReindexSpec == ReindexInit /\ [][ReindexNext]_vars

\* ------------------------------------------- decide under every review
\* what the reviewer can answer (the prompt of _call_auditor, line 249), or
\* its request fails
AdvisoryOutcomes ==
    {[ok |-> TRUE, text |-> t] : t \in {"PASS", "FAIL", "PARTIAL"}}
        \cup {[ok |-> FALSE, text |-> ""]}

\* an agent with both api keys and the low-confidence rule, which allows
\* the query with strong evidence and wants approval for the other two
AdvisoryInit ==
    /\ rules = <<PolicyRule("low_confidence", <<"min_score:", "0.5">>, "needs_approval")>>
    /\ settings \in {st \in SettingsSet : st.orchestrator_key /\ st.auditor_key}
    /\ state = "running"
    /\ pending = None
    /\ events = <<>>
    /\ coro = [c \in Coroutines |-> IdleCoro]
    /\ nextId = 1
    /\ genCalls = 0
    /\ revCalls = 0
    /\ overrides = 0
    /\ returned = <<>>
    /\ result = NoResult
    /\ loops = [i \in LoopIds |-> NewLoop]
    /\ state_file = None
    /\ marks = NoMarks
    /\ chunks = <<>>
    /\ doc_ids = {}
    /\ threads = [t \in Threads |-> IdleThread]
    /\ audit_file = <<>>

AdvisoryNext ==
    \/ \E c \in Coroutines, in \in DecideInputs :
          DecideStart(c, in.query, in.evidence, in.context)
    \/ \E c \in Coroutines, o \in GenOutcomes : OrchestratorResponse(c, o)
    \/ \E c \in Coroutines, o \in AdvisoryOutcomes : AuditorResponse(c, o)

AdvisorySpec == AdvisoryInit /\ [][AdvisoryNext]_vars

\* ------------------------------------------------ the audit logger alone
\* AuditEvent with the event_id its default factory gives it
Stamped(event, event_id) ==
    [event_id |-> event_id, layer |-> event.layer, event_type |-> event.event_type,
     payload |-> event.payload, decision_id |-> event.decision_id,
     actor |-> event.actor]

\* the calls the threads make: log itself, and override, which logs
\* through log_override and returns its record
LogCalls ==
    { [op |-> "log",
       event |-> AuditEvent("knowledge", "document_indexed",
                            [doc_id |-> "d1", chunks_added |-> 1], NoId, "system")],
      [op |-> "log",
       event |-> AuditEvent("reasoning", "decision_approved", EmptyPayload, 1, "human")],
      [op |-> "override",
       event |-> OverrideEvent(HumanOverride(1, <<"fixed">>, <<"policy">>))] }

\* the thread that is inside the "with self._lock" of _append, if one is
LockHolders == {t \in Threads : threads[t].pc = "locked"}

\* _write_to_file with an OSError that is not caught
WriteToFile_Propagates(file, event, ok) ==
    [file |-> IF ok THEN Append(file, event) ELSE file, raised |-> ~ok]

\* _write_to_file: the line is appended to the file of the day, or open /
\* write raise OSError, which is logged and swallowed
WriteToFile(file, event, ok) ==
    [file |-> IF ok THEN Append(file, event) ELSE file, raised |-> FALSE]

\* get_events: the copy of the list, filtered by the arguments that are
\* truthy
Filtered(evs, decision_id, layer) ==
    LET Keep(e) == /\ decision_id # NoId => e.decision_id = decision_id
                   /\ layer # "" => e.layer = layer
    IN SelectSeq(evs, Keep)

\* log, lines 43-49, and the entry of _append: the event is built and the
\* thread takes the lock
LogEnter(t, call) ==
    /\ threads[t].pc = "idle"
    /\ nextId <= MaxLogs
    /\ LockHolders = {}
    /\ LET event == Stamped(call.event, nextId)
       IN threads' = [threads EXCEPT ![t] =
              [pc |-> "locked", op |-> call.op, event |-> event,
               value |-> IF call.op = "override" THEN call.event.payload ELSE event]]
    /\ nextId' = nextId + 1
    /\ UNCHANGED <<rules, state, pending, events, settings, coro, genCalls, revCalls,
                   overrides, returned, result, learningVars, knowledgeVars,
                   audit_file>>

\* _append, line 82, and the release of the lock
LogAppend(t) ==
    /\ threads[t].pc = "locked"
    /\ events' = Append(events, threads[t].event)
    /\ threads' = [threads EXCEPT ![t].pc = "write"]
    /\ UNCHANGED <<rules, agentVars, result, learningVars, knowledgeVars, audit_file>>

\* _append, lines 83-84, outside the lock, and the return of log and of
\* the operation that called it
LogWrite(t, ok) ==
    /\ threads[t].pc = "write"
    /\ LET w == WriteToFile(audit_file, threads[t].event, ok)
       IN /\ audit_file' = w.file
          /\ result' = [op |-> threads[t].op, thread |-> t,
                        event |-> threads[t].event, written |-> ok,
                        value |-> IF w.raised THEN Raised ELSE threads[t].value]
    /\ threads' = [threads EXCEPT ![t] = IdleThread]
    /\ UNCHANGED <<rules, agentVars, events, learningVars, knowledgeVars>>

\* AuditLogger.get_events
GetEvents(decision_id, layer) ==
    /\ LockHolders = {}
    /\ result' = [op |-> "get_events", decision_id |-> decision_id, layer |-> layer,
                  value |-> Filtered(events, decision_id, layer)]
    /\ UNCHANGED <<rules, agentVars, events, learningVars, knowledgeVars, threadVars>>

LoggerInit == LearningInit

LoggerNext ==
    \/ \E t \in Threads, call \in LogCalls : LogEnter(t, call)
    \/ \E t \in Threads : LogAppend(t)
    \/ \E t \in Threads, ok \in BOOLEAN : LogWrite(t, ok)
    \/ \E decision_id \in {NoId, 1}, layer \in {"", "knowledge"} :
          GetEvents(decision_id, layer)

LoggerSpec == LoggerInit /\ [][LoggerNext]_vars

\* --------------------------------------- record_feedback from two threads
\* the ratings recorded before the threads start
RECURSIVE ReplayLoop(_)
ReplayLoop(ratings) ==
    IF ratings = <<>> THEN NewLoop
    ELSE LET n == Len(ratings)
         IN Recorded(ReplayLoop(SubSeq(ratings, 1, n - 1)),
                     FeedbackRecord(n, 1, ratings[n], <<>>, <<>>))

\* the audit events of those calls
RECURSIVE ReplayEvents(_)
ReplayEvents(ratings) ==
    IF ratings = <<>> THEN <<>>
    ELSE LET n == Len(ratings)
             before == SubSeq(ratings, 1, n - 1)
         IN ReplayEvents(before)
               \o FeedbackEvents(ReplayLoop(before),
                                 FeedbackRecord(n, 1, ratings[n], <<>>, <<>>))

\* the key of _mistake_counts a rating is counted under
IsMistake(rating) == rating \in {"INCORRECT", "HALLUCINATION"}
CountOf(counts, rating) ==
    IF rating = "INCORRECT" THEN counts.incorrect ELSE counts.hallucination
WithCount(counts, rating, n) ==
    IF rating = "INCORRECT" THEN [counts EXCEPT !.incorrect = n]
    ELSE [counts EXCEPT !.hallucination = n]

\* record_feedback, line 53
RfAppend(t, rating) ==
    /\ threads[t].pc = "idle"
    /\ Len(loops[1].feedback) < BaseLen + MaxRaceCalls
    /\ LET feedback == NewFeedback(1, rating)
       IN /\ loops' = [loops EXCEPT ![1].feedback = Append(@, feedback)]
          /\ threads' = [threads EXCEPT ![t] =
                 [pc |-> IF IsMistake(rating) THEN "read" ELSE "log",
                  feedback |-> feedback, seen |-> 0]]
    /\ UNCHANGED <<rules, agentVars, events, result, knowledgeVars, audit_file,
                   state_file, marks>>

\* record_feedback, line 56: the counter is read
RfRead(t) ==
    /\ threads[t].pc = "read"
    /\ threads' = [threads EXCEPT
           ![t].seen = CountOf(loops[1].mistake_counts, threads[t].feedback.rating),
           ![t].pc = "write"]
    /\ UNCHANGED <<rules, agentVars, events, result, learningVars, knowledgeVars,
                   audit_file>>

\* record_feedback, line 56: the counter is written
RfWrite(t) ==
    /\ threads[t].pc = "write"
    /\ loops' = [loops EXCEPT ![1].mistake_counts =
           WithCount(@, threads[t].feedback.rating, threads[t].seen + 1)]
    /\ threads' = [threads EXCEPT ![t].pc = "log"]
    /\ UNCHANGED <<rules, agentVars, events, result, knowledgeVars, audit_file,
                   state_file, marks>>

\* record_feedback, lines 58-67
RfLog(t) ==
    /\ threads[t].pc = "log"
    /\ events' = Append(events, Head(FeedbackEvents(loops[1], threads[t].feedback)))
    /\ threads' = [threads EXCEPT ![t].pc = "check"]
    /\ UNCHANGED <<rules, agentVars, result, learningVars, knowledgeVars, audit_file>>

\* record_feedback, lines 70-72: _check_for_adjustments on the counters
\* as they are now, and the return
RfCheck(t) ==
    /\ threads[t].pc = "check"
    /\ LET created == CheckForAdjustments(loops[1].mistake_counts, threads[t].feedback)
       IN /\ loops' = [loops EXCEPT ![1].adjustments = @ \o created]
          /\ events' = events \o
                [k \in 1..Len(created) |->
                    AuditEvent("learning", "adjustment_created", created[k],
                               NoId, "system")]
    /\ result' = [op |-> "record_feedback", loop |-> 1, thread |-> t,
                  value |-> threads[t].feedback]
    /\ threads' = [threads EXCEPT ![t] = IdleThread]
    /\ UNCHANGED <<rules, agentVars, knowledgeVars, audit_file, state_file, marks>>

RaceInit ==
    /\ AgentIdle
    /\ rules = <<>>
    /\ result = NoResult
    /\ \E ratings \in [1..BaseLen -> OutcomeRating] :
          /\ loops = [i \in LoopIds |-> IF i = 1 THEN ReplayLoop(ratings) ELSE NewLoop]
          /\ events = ReplayEvents(ratings)
    /\ state_file = None
    /\ marks = NoMarks
    /\ chunks = <<>>
    /\ doc_ids = {}
    /\ threads = [t \in Threads |-> IdleThread]
    /\ audit_file = <<>>

RaceNext ==
    \/ \E t \in Threads, rating \in OutcomeRating : RfAppend(t, rating)
    \/ \E t \in Threads : RfRead(t)
    \/ \E t \in Threads : RfWrite(t)
    \/ \E t \in Threads : RfLog(t)
    \/ \E t \in Threads : RfCheck(t)

RaceSpec == RaceInit /\ [][RaceNext]_vars

\* =================================================================== claims
\* the step that just ran was a decide call that returned a Decision
DecideReturned(r) == r.op = "decide" /\ r.value # Raised

\* the state section 4.3 gives a decision, from the verdict and the flag
ExpectedState(verdict, human_in_loop) ==
    IF verdict = "deny" THEN "failed"
    ELSE IF verdict = "needs_approval" /\ human_in_loop THEN "waiting_approval"
    ELSE "completed"

\* a human has approved or rejected the decision
Resolved(id) ==
    \E i \in 1..Len(events) :
        /\ events[i].event_type \in {"decision_approved", "decision_rejected"}
        /\ events[i].decision_id = id

\* the pending slot holds a decision with this identifier
HeldAsPending(id) == pending # None /\ pending.decision_id = id

\* an evidence-only answer: the no-evidence statement, or the text of the top
\* result with the document and page of each of its citations
IsFallback(answer, evidence) ==
    IF evidence.results = <<>> THEN answer = NO_EVIDENCE_MSG
    ELSE LET top == evidence.results[1] IN
         /\ Contains(answer, top.text)
         /\ \A i \in 1..Len(top.citations) :
                Contains(answer, <<top.citations[i].doc_id, ", page=",
                                   Str(top.citations[i].page)>>)

\* the answer of a returned decision without the marker decide put in front
Unmarked(d) == IF d.agent_state = "waiting_approval" THEN Tail(d.answer) ELSE d.answer

C2_PendingNeverOverwritten ==
    \A id \in DOMAIN returned :
        (returned[id].agent_state = "waiting_approval" /\ ~Resolved(id))
            => HeldAsPending(id)

\* C3: the state of the decision decide returns is FAILED for DENY,
\* WAITING_APPROVAL for NEEDS_APPROVAL with human-in-loop, COMPLETED otherwise;
\* a waiting decision is the one in the pending slot and its answer is the
\* marker followed by the generated answer; any other decide leaves the slot
\* alone; the agent state is the returned state, never RUNNING.
C3_StateFromVerdict ==
    [][ DecideReturned(result')
        => LET d == result'.value IN
           /\ d.agent_state =
                  ExpectedState(result'.verdict, settings.enable_human_in_loop)
           /\ state' = d.agent_state
           /\ state' # "running"
           /\ IF d.agent_state = "waiting_approval"
              THEN /\ pending' # None
                   /\ pending'.decision_id = d.decision_id
                   /\ d.answer = <<MARK>> \o result'.generated
              ELSE pending' = pending ]_vars

\* C3 witness: decide returned a waiting decision
C3_Witness ==
    /\ DecideReturned(result)
    /\ result.value.agent_state = "waiting_approval"
    /\ result.verdict = "needs_approval"

\* C4: a successful approve is for the pending identifier, returns a COMPLETED
\* decision whose answer is the waiting decision's answer without the marker
\* in front (the generated answer), sets the agent COMPLETED and empties the slot.
C4_ApproveStripsMarker ==
    [][ (result'.op = "approve" /\ result'.value # None)
        => /\ HeldAsPending(result'.id)
           /\ result'.value.agent_state = "completed"
           /\ result'.value.answer = Unmarked(returned[result'.id])
           /\ state' = "completed"
           /\ pending' = None ]_vars

\* C5: a successful reject is for the pending identifier, returns a FAILED
\* decision whose answer is the rejection mark with the reason, sets the agent
\* FAILED and empties the slot, so no identifier is pending afterwards.
C5_Reject ==
    [][ (result'.op = "reject" /\ result'.value # None)
        => /\ HeldAsPending(result'.id)
           /\ result'.value.decision_id = result'.id
           /\ result'.value.agent_state = "failed"
           /\ Head(result'.value.answer) \in {"[REJECTED] ", "[REJECTED]"}
           /\ Tail(result'.value.answer) = result'.reason
           /\ state' = "failed"
           /\ pending' = None ]_vars

\* C5 witness: a pending decision was rejected with a reason
C5_Witness ==
    /\ result.op = "reject"
    /\ result.value # None
    /\ result.reason # <<>>

\* C6: approve or reject with an identifier that is not the pending one
\* returns absent (a call that returns a decision was for the pending
\* identifier), and a call that returns absent leaves agent state, pending
\* slot and audit events as they were.
C6_AbsentLeavesState ==
    [][ /\ (result'.op \in {"approve", "reject"} /\ result'.value # None)
            => HeldAsPending(result'.id)
        /\ (result'.op \in {"approve", "reject"} /\ result'.value = None)
            => /\ state' = state
               /\ pending' = pending
               /\ events' = events ]_vars

\* C6 witness: a call returned absent while another identifier was pending
C6_Witness ==
    /\ result.op \in {"approve", "reject"}
    /\ result.value = None
    /\ pending # None

\* C7: the value held in the pending slot is in state WAITING_APPROVAL.
C7_PendingIsWaiting ==
    pending # None => pending.agent_state = "waiting_approval"

\* C8: the decision a successful approve or reject returns has the
\* identifier, query, evidence, evaluations and models of the waiting decision
\* decide returned for it, and no returned decision ever changes.
C8_SameDecision ==
    [][ /\ \A id \in DOMAIN returned :
              id \in DOMAIN returned' /\ returned'[id] = returned[id]
        /\ (result'.op \in {"approve", "reject"} /\ result'.value # None)
           => /\ pending # None
              /\ pending.decision_id \in DOMAIN returned
              /\ LET w == returned[pending.decision_id]
                     d == result'.value
                 IN /\ w.agent_state = "waiting_approval"
                    /\ d.decision_id = w.decision_id
                    /\ d.query = w.query
                    /\ d.evidence = w.evidence
                    /\ d.policy_evaluations = w.policy_evaluations
                    /\ d.model_used = w.model_used
                    /\ d.auditor_model = w.auditor_model
                    /\ d.agent_state # w.agent_state ]_vars

\* C8 witness: a waiting decision with evidence was approved
C8_Witness ==
    /\ result.op = "approve"
    /\ result.value # None
    /\ result.value.policy_evaluations # <<>>
    /\ result.value.evidence # <<>>
    /\ returned[result.id].agent_state = "waiting_approval"

\* C9 as stated: when the generator or the reviewer fails and the verdict is
\* not DENY, the answer is the evidence-only fallback and the state is the one
\* the verdict and the flag give.
C9_FallbackOnAnyFailure ==
    (/\ DecideReturned(result)
     /\ result.verdict # "deny"
     /\ (result.gen \in {"failed", "no_key"} \/ result.review \in {"failed", "no_key"}))
    => /\ IsFallback(Unmarked(result.value), result.evidence)
       /\ result.value.agent_state =
              ExpectedState(result.verdict, settings.enable_human_in_loop)

\* C9 amended: when the generator fails the answer is the evidence-only
\* fallback; when only the reviewer fails the answer is the generator's; in
\* both cases the state is the one the verdict and the flag give.
C9_FallbackOnGeneratorFailure ==
    (/\ DecideReturned(result)
     /\ result.verdict # "deny"
     /\ (result.gen \in {"failed", "no_key"} \/ result.review \in {"failed", "no_key"}))
    => /\ result.gen \in {"failed", "no_key"}
            => IsFallback(Unmarked(result.value), result.evidence)
       /\ result.gen = "ok" => Unmarked(result.value) \in GenTexts
       /\ result.value.agent_state =
              ExpectedState(result.verdict, settings.enable_human_in_loop)
       /\ result.value.agent_state # "failed"

\* C9 witness: the generator's request failed with evidence at hand, and the
\* decision was completed
C9_Witness ==
    /\ DecideReturned(result)
    /\ result.gen = "failed"
    /\ result.evidence.results # <<>>
    /\ result.value.agent_state = "completed"

\* C10: override appends exactly one human-override audit event and leaves
\* the agent state and the pending slot unchanged.
C10_OverrideAuditOnly ==
    [][ result'.op = "override"
        => /\ Len(events') = Len(events) + 1
           /\ SubSeq(events', 1, Len(events)) = events
           /\ events'[Len(events')].event_type = "human_override"
           /\ events'[Len(events')].decision_id = result'.value.decision_id
           /\ state' = state
           /\ pending' = pending ]_vars

\* C10 witness: an override was recorded for the decision that is pending
C10_Witness ==
    /\ result.op = "override"
    /\ pending # None
    /\ pending.decision_id = result.value.decision_id
    /\ state = "waiting_approval"

\* the permutations of 1..n
Perms(n) == {f \in [1..n -> 1..n] : \A j \in 1..n : \E k \in 1..n : f[k] = j}

\* the verdict section 4.2 gives a list: a matched DENY before a matched
\* NEEDS_APPROVAL before ALLOW
PriorityVerdict(evaluations) ==
    LET Hit(v) == \E i \in 1..Len(evaluations) :
                      evaluations[i].matched /\ evaluations[i].verdict = v
    IN  IF Hit("deny") THEN "deny"
        ELSE IF Hit("needs_approval") THEN "needs_approval"
        ELSE "allow"

\* C11: check_allowed returns DENY if some evaluation is matched with DENY,
\* else NEEDS_APPROVAL if some is matched with NEEDS_APPROVAL, else ALLOW; an
\* unmatched evaluation counts for nothing, and every permutation of the list
\* gets the same verdict.
C11_PriorityAggregation ==
    result.op = "check_allowed"
    => LET evaluations == result.evaluations IN
       /\ result.value = PriorityVerdict(evaluations)
       /\ \A f \in Perms(Len(evaluations)) :
              CheckAllowed([k \in 1..Len(evaluations) |-> evaluations[f[k]]])
                  = result.value

\* C11 witness: DENY was returned for a list that begins with a matched
\* NEEDS_APPROVAL and an unmatched DENY and ends with the matched DENY
C11_Witness ==
    /\ result.op = "check_allowed"
    /\ Len(result.evaluations) = 3
    /\ result.evaluations[1].matched /\ result.evaluations[1].verdict = "needs_approval"
    /\ ~result.evaluations[2].matched /\ result.evaluations[2].verdict = "deny"
    /\ result.evaluations[3].matched /\ result.evaluations[3].verdict = "deny"
    /\ result.value = "deny"

\* evaluate returned a list of evaluations
EvaluateReturned(r) == r.op = "evaluate" /\ ~r.raised

\* the evaluation an engine holding this rule alone gives the same arguments
Alone(rule, r) == Evaluate(<<rule>>, r.query, r.evidence, r.context)[1]

\* C12: add_rule appends; evaluate, when it returns, returns one evaluation
\* per registered rule in registration order, the i-th for the i-th rule and,
\* when matched, with that rule's verdict; each rule is evaluated as it would
\* be on its own, whatever the names of the others; evaluate leaves the rule
\* list as it was.
C12_OnePerRuleInOrder ==
    [][ /\ result'.op = "add_rule"
            => /\ Len(rules') = Len(rules) + 1
               /\ SubSeq(rules', 1, Len(rules)) = rules
        /\ result'.op = "evaluate" => rules' = rules
        /\ EvaluateReturned(result')
            => LET evaluations == result'.value IN
               /\ Len(evaluations) = Len(rules)
               /\ \A i \in 1..Len(rules) :
                      /\ evaluations[i].rule = rules[i]
                      /\ evaluations[i].matched
                             => evaluations[i].verdict = rules[i].verdict
                      /\ evaluations[i] = Alone(rules[i], result') ]_vars

\* C12 witness: evaluate returned for two rules of one name, and only the
\* second of them matched
C12_Witness ==
    /\ EvaluateReturned(result)
    /\ Len(rules) = 2
    /\ rules[1].name = rules[2].name
    /\ ~result.value[1].matched
    /\ result.value[2].matched

\* a condition of none of the four forms, or of a form with a part that
\* cannot be read: no number after min_score, no "=" after context, a
\* pattern after contains that is not a regular expression
Malformed(rule) ==
    LET cond == Strip(rule.condition)
        rest == Strip(Drop(cond, 1))
    IN
    \/ cond = <<>>
    \/ Head(cond) \notin {"no_evidence", "contains:", "min_score:", "context:"}
    \/ Head(cond) = "min_score:" /\ Float(rest) = ValueError
    \/ Head(cond) = "context:" /\ \A k \in 1..Len(rest) : rest[k] # "="
    \/ Head(cond) = "contains:" /\ \E k \in 1..Len(rest) : rest[k] = "("

\* C13: over rules with malformed conditions evaluate does not raise, and it
\* reports each such rule as not matched.
C13_MalformedNeverRaises ==
    result.op = "evaluate"
    => /\ ~result.raised
       /\ \A i \in 1..Len(rules) :
              Malformed(rules[i]) => ~result.value[i].matched

\* the highest score among the results, 0 when there are none
TopScore(evidence) ==
    IF evidence.results = <<>> THEN 0
    ELSE CHOOSE m \in {evidence.results[k].score : k \in 1..Len(evidence.results)} :
             \A k \in 1..Len(evidence.results) : evidence.results[k].score <= m

C15_ContextNeedsEntry ==
    EvaluateReturned(result)
    => \A i \in 1..Len(rules) :
           LET cond == Strip(rules[i].condition)
               kv == Strip(Drop(cond, 1))
               eq == FirstEq(kv)
           IN
           (StartsWith(cond, "context:") /\ eq # 0)
           => (result.value[i].matched
                   <=> /\ result.context.given
                       /\ \E e \in result.context.entries :
                              /\ e.key = Strip(SubSeq(kv, 1, eq - 1))
                              /\ e.value = Strip(Drop(kv, eq)))

\* the ratings of the feedback a loop holds, in the order recorded
Ratings(l) == [k \in 1..Len(l.feedback) |-> l.feedback[k].rating]

\* how many feedback records of a loop carry the rating
Cumulative(l, rating) ==
    Cardinality({k \in 1..Len(l.feedback) : l.feedback[k].rating = rating})

\* the adjustments of one type, in the order created
RECURSIVE OfType(_, _)
OfType(adjs, adjustment_type) ==
    IF adjs = <<>> THEN <<>>
    ELSE (IF Head(adjs).adjustment_type = adjustment_type
          THEN <<Head(adjs)>> ELSE <<>>) \o OfType(Tail(adjs), adjustment_type)

\* C16: the number of retrieval_weight adjustments is floor(H/3) and the
\* number of prompt_patch adjustments is floor(I/5), H and I being the
\* cumulative counts of HALLUCINATION and INCORRECT feedback, and the k-th
\* retrieval_weight adjustment has parameter 0.1*k.
C16_AdjustmentsFollowCounts ==
    LET weights == OfType(loops[1].adjustments, "retrieval_weight")
        patches == OfType(loops[1].adjustments, "prompt_patch")
    IN
    /\ Len(weights) = Cumulative(loops[1], "HALLUCINATION") \div 3
    /\ Len(patches) = Cumulative(loops[1], "INCORRECT") \div 5
    /\ \A k \in 1..Len(weights) : weights[k].parameters.min_score_threshold = k

\* C17: with only HALLUCINATION feedback recorded, n of them, there are
\* n div 3 adjustments; the k-th is a retrieval_weight adjustment with
\* parameter 0.1*k, created by the 3k-th feedback.
C17_EveryThirdHallucination ==
    (\A k \in 1..Len(loops[1].feedback) : loops[1].feedback[k].rating = "HALLUCINATION")
    => /\ Len(loops[1].adjustments) = Len(loops[1].feedback) \div 3
       /\ \A k \in 1..Len(loops[1].adjustments) :
              LET adj == loops[1].adjustments[k] IN
              /\ adj.adjustment_type = "retrieval_weight"
              /\ adj.parameters.min_score_threshold = k
              /\ adj.trigger_feedback_id = loops[1].feedback[3 * k].feedback_id

\* C17 witness: six hallucinations and nothing else were recorded, and there
\* are two adjustments
C17_Witness ==
    /\ Len(loops[1].feedback) = 6
    /\ \A k \in 1..6 : loops[1].feedback[k].rating = "HALLUCINATION"
    /\ Len(loops[1].adjustments) = 2

\* C18: a fresh loop that loads the state another loop saved, and is then
\* given the feedback that loop got after saving, holds the same feedback,
\* the same adjustments and the same mistake counters as that loop.
C18_RestoredLoopAgrees ==
    (marks.loads > 0 /\ SinceLoad = SinceSave) => loops[2] = loops[1]

\* C18 witness: the state was saved after one or two hallucinations, loaded by
\* the fresh loop, and the feedback given to it since has created an adjustment
C18_Witness ==
    /\ marks.loads > 0
    /\ SinceLoad = SinceSave
    /\ SinceLoad > 0
    /\ state_file.mistake_counts.hallucination \in {1, 2}
    /\ Len(loops[2].adjustments) > Len(state_file.adjustments)

\* the sum of the values of a function
RECURSIVE SumOf(_)
SumOf(f) ==
    IF DOMAIN f = {} THEN 0
    ELSE LET x == CHOOSE x \in DOMAIN f : TRUE
         IN  f[x] + SumOf([y \in DOMAIN f \ {x} |-> f[y]])

\* C19: compute_accuracy returns the number of feedback records as total and
\* (CORRECT + 0.5 * PARTIALLY_CORRECT) / total to 4 decimals as accuracy,
\* 0.0 when total is 0; the breakdown sums to total; two CORRECT, one
\* INCORRECT and one PARTIALLY_CORRECT give total 4 and accuracy 0.625.
C19_Accuracy ==
    result.op = "compute_accuracy"
    => LET report == result.value
           total == Len(loops[1].feedback)
           twice == 2 * Cumulative(loops[1], "CORRECT")
                        + Cumulative(loops[1], "PARTIALLY_CORRECT")
           gap == report.accuracy * 2 * total - twice * 10000
       IN
       /\ report.total = total
       /\ total = 0 => report.accuracy = 0
       /\ total > 0 => (gap <= total /\ -gap <= total)
       /\ SumOf(report.breakdown) = total
       /\ Ratings(loops[1]) = <<"CORRECT", "CORRECT", "INCORRECT", "PARTIALLY_CORRECT">>
              => (report.total = 4 /\ report.accuracy = 6250)

\* C19 witness: the accuracy was computed over two CORRECT, one INCORRECT and
\* one PARTIALLY_CORRECT feedback
C19_Witness ==
    /\ result.op = "compute_accuracy"
    /\ Ratings(loops[1]) = <<"CORRECT", "CORRECT", "INCORRECT", "PARTIALLY_CORRECT">>

\* the grade section 4.4 gives, the two texts compared as they are but for case
GradeIgnoringCase(answer, expected, evidence) ==
    IF Lower(answer) = Lower(expected) THEN "CORRECT"
    ELSE IF \/ Contains(Lower(answer), Lower(expected))
            \/ Contains(Lower(expected), Lower(answer))
         THEN "PARTIALLY_CORRECT"
    ELSE IF evidence = <<>> THEN "HALLUCINATION"
    ELSE "INCORRECT"

\* the same grade with white space at the ends of both texts left out
GradeTrimmed(answer, expected, evidence) ==
    GradeIgnoringCase(Strip(answer), Strip(expected), evidence)

\* C20 as stated: the answer equal to the expected text ignoring case is
\* CORRECT, else either text contained in the other is PARTIALLY_CORRECT, else
\* no evidence is HALLUCINATION, else INCORRECT.
C20_GradeIgnoringCase ==
    result.op = "evaluate_decision"
    => result.value.rating =
           GradeIgnoringCase(result.decision.answer, result.expected,
                             result.decision.evidence)

\* C20 amended: the grade is taken after case and surrounding white space are
\* left out of both texts, with the same precedence; evaluate_decision records
\* exactly one feedback with that grade for the decision's identifier, counts
\* it as a mistake when it is INCORRECT or HALLUCINATION, and a hallucination
\* that brings the count to a multiple of 3 creates an adjustment.
C20_GradeTrimmedAndRecorded ==
    [][ result'.op = "evaluate_decision"
        => LET fb == result'.value
               before == loops[1]
               after == loops'[1]
           IN
           /\ fb.rating = GradeTrimmed(result'.decision.answer, result'.expected,
                                       result'.decision.evidence)
           /\ fb.decision_id = result'.decision.decision_id
           /\ after.feedback = Append(before.feedback, fb)
           /\ after.mistake_counts.incorrect = before.mistake_counts.incorrect
                  + (IF fb.rating = "INCORRECT" THEN 1 ELSE 0)
           /\ after.mistake_counts.hallucination = before.mistake_counts.hallucination
                  + (IF fb.rating = "HALLUCINATION" THEN 1 ELSE 0)
           /\ (fb.rating = "HALLUCINATION" /\ after.mistake_counts.hallucination % 3 = 0)
                  => Len(after.adjustments) > Len(before.adjustments) ]_vars

\* C20 witness: an answer that contains the expected text and has no evidence
\* was graded PARTIALLY_CORRECT
C20_Witness ==
    /\ result.op = "evaluate_decision"
    /\ result.decision.evidence = <<>>
    /\ result.decision.answer # result.expected
    /\ result.value.rating = "PARTIALLY_CORRECT"
\* ------------------------------------------------------------------- C21
\* C21: a retrieve on a store that holds no chunk returns an empty result
\* list, whatever the strategy, the top_k and the query, the empty query
\* included.
C21_EmptyStoreRetrievesNothing ==
    (result.op = "retrieve" /\ chunks = <<>>) => result.value.results = <<>>

\* a hybrid retrieve of the empty query on a store whose one document had
\* nothing to index
C21_Witness ==
    /\ result.op = "retrieve" /\ chunks = <<>> /\ doc_ids # {}
    /\ result.query = <<>> /\ result.strategy = "hybrid" /\ result.top_k = 5
    /\ result.value.results = <<>>

\* ------------------------------------------------------------------- C22
\* no chunk of the store has a term of the query
NoSharedTerm(cs, query) ==
    \A i \in 1..Len(cs) :
        TermSet(Split(Lower(query))) \cap TermSet(Split(Lower(cs[i].text))) = {}

\* C22: when the store is not empty and no chunk shares a term with the
\* query, retrieve returns no result under every strategy.
C22_NoEvidenceNoResults ==
    (result.op = "retrieve" /\ chunks # <<>> /\ NoSharedTerm(chunks, result.query))
        => result.value.results = <<>>

\* ------------------------------------------------------------------- C23
\* the step that just ran was a retrieve on a store that held chunks
RetrievedFromStore(r) == r.op = "retrieve" /\ chunks # <<>>

\* the positions of a scored list whose score is positive, in list order
PositiveOf(scored) == SelectSeq(scored, LAMBDA e : e.score > 0)

\* the scored list holds every chunk of the store once, best score first
RanksTheStore(scored) ==
    /\ Len(scored) = Len(chunks)
    /\ \A i \in 1..Len(chunks) : \E k \in 1..Len(scored) : scored[k].chunk = chunks[i]
    /\ \A k \in 1..(Len(scored) - 1) : scored[k].score >= scored[k + 1].score

PositionOf(chunk) == CHOOSE i \in 1..Len(chunks) : chunks[i] = chunk

\* C24: under every strategy two returned chunks whose final scores are
\* equal stand in the result list in the order they were indexed.
C24_TiesInInsertionOrder ==
    RetrievedFromStore(result) =>
        \A k, l \in 1..Len(result.value.results) :
            (k < l /\ result.scored[k].score = result.scored[l].score)
                => PositionOf(result.scored[k].chunk) < PositionOf(result.scored[l].chunk)

\* ------------------------------------------------------------------- C25
\* the 1-based position of the chunk at i in the descending order of a
\* scored list, equal scores in list order
RankIn(list, i) ==
    1 + Cardinality({j \in 1..Len(list) : list[j].score > list[i].score})
      + Cardinality({j \in 1..(i - 1) : list[j].score = list[i].score})

\* 1/(60 + r1) + 1/(60 + r2) in millionths
FusedScore(r1, r2) == 1000000 \div (60 + r1) + 1000000 \div (60 + r2)

CitesChunk(citation, chunk_id) ==
    \E i \in 1..Len(chunks) :
        /\ chunks[i].chunk_id = chunk_id
        /\ citation.doc_id = chunks[i].doc_id
        /\ citation.page = chunks[i].page

\* C26: every result retrieve returns carries at least one citation, and
\* that citation names the document and the page of the result's chunk.
C26_ResultsAreCited ==
    result.op = "retrieve" =>
        \A k \in 1..Len(result.value.results) :
            LET r == result.value.results[k] IN
            /\ Len(r.citations) >= 1
            /\ CitesChunk(r.citations[1], r.chunk_id)

\* a retrieve that returned a text chunk of page 3 and an image chunk
C26_Witness ==
    /\ result.op = "retrieve"
    /\ \E k \in 1..Len(result.value.results) :
           result.value.results[k].citations = <<[doc_id |-> "d5", page |-> 3]>>
    /\ \E k \in 1..Len(result.value.results) :
           /\ result.value.results[k].chunk_id.kind = "img"
           /\ result.value.results[k].citations = <<[doc_id |-> "d1", page |-> 1]>>

\* ------------------------------------------------------------------- C27
\* no text block of the document is longer than the chunk budget
WithinBudget(doc) == \A i \in 1..Len(doc.texts) : Chars(doc.texts[i].text) <= 500

\* the images of the document that have a description
Described(doc) == {i \in 1..Len(doc.images) : doc.images[i].description # <<>>}

\* the chunks of a modality among those appended behind the first n
Appended(cs, n, modality) == {i \in (n + 1)..Len(cs) : cs[i].modality = modality}

\* C27: indexing a document of N text blocks within the budget and M'
\* described images appends N text chunks and M' image chunks and returns
\* N + M'; the chunk count grows by the returned value, which is 0 for a
\* document with no text and no described image.
C27_IndexCounts ==
    [][(result'.op = "index_document" /\ doc_ids' # doc_ids) =>
          LET doc == result'.doc IN
          /\ Len(chunks') = Len(chunks) + result'.value
          /\ SubSeq(chunks', 1, Len(chunks)) = chunks
          /\ WithinBudget(doc) =>
                /\ Cardinality(Appended(chunks', Len(chunks), "text")) = Len(doc.texts)
                /\ Cardinality(Appended(chunks', Len(chunks), "image"))
                       = Cardinality(Described(doc))
                /\ result'.value = Len(doc.texts) + Cardinality(Described(doc))]_vars

\* a document with nothing to index returned 0, then a document with one
\* block, one described and one undescribed image returned 2
C27_Witness ==
    /\ result.op = "index_document" /\ result.doc.doc_id = "d1" /\ result.value = 2
    /\ Len(chunks) = 2
    /\ \E k \in 1..Len(events) :
           events[k].payload = [doc_id |-> "d3", chunks_added |-> 0]

\* ------------------------------------------------------------------- C28
\* C28: every text chunk in the store is at most 500 characters long,
\* whatever the block it was cut from.
C28_ChunksWithinBudget ==
    \A i \in 1..Len(chunks) :
        chunks[i].modality = "text" => Chars(chunks[i].text) <= 500

\* ------------------------------------------------------------------- C29
\* the event says what the call that returned r did
DescribesCall(e, r) ==
    /\ e.layer = "knowledge"
    /\ IF r.op = "index_document"
       THEN /\ e.event_type = "document_indexed"
            /\ e.payload = [doc_id |-> r.doc.doc_id, chunks_added |-> r.value]
       ELSE /\ e.event_type = "retrieval"
            /\ e.payload.query = r.query
            /\ e.payload.strategy = r.strategy
            /\ e.payload.results_count = Len(r.value.results)
            /\ e.payload.top_score = IF r.value.results # <<>>
                                     THEN r.value.results[1].score ELSE 0

\* C29: every index call and every retrieve call, a retrieve on an empty
\* store included, appends exactly one knowledge-layer event that describes
\* it, behind the events of the calls that completed before it.
C29_OneEventPerCall ==
    [][result'.op \in {"index_document", "retrieve"} =>
          /\ Len(events') = Len(events) + 1
          /\ SubSeq(events', 1, Len(events)) = events
          /\ DescribesCall(events'[Len(events')], result')]_vars

\* ------------------------------------------------------------------- C30
\* the chunks of the store that hold the term
Holding(term) == {i \in 1..Len(chunks) : term \in TermSet(Split(Lower(chunks[i].text)))}

\* the query has one term and exactly one chunk of the store holds it
OneTermOneChunk(query) ==
    /\ Len(Split(Lower(query))) = 1
    /\ Cardinality(Holding(Split(Lower(query))[1])) = 1

\* C30: when the one term of the query is in exactly one chunk, the BM25
\* score of that chunk is above the score of every other chunk, and a bm25
\* retrieve of at least one result returns that chunk and nothing else.
C30_SoleHolderWins ==
    (RetrievedFromStore(result) /\ result.strategy = "bm25"
        /\ OneTermOneChunk(result.query)) =>
        LET holder == chunks[CHOOSE i \in Holding(Split(Lower(result.query))[1]) : TRUE]
        IN  /\ result.scored[1].chunk = holder
            /\ \A k \in 2..Len(result.scored) :
                   result.scored[1].score > result.scored[k].score
            /\ result.top_k >= 1 =>
                   /\ Len(result.value.results) = 1
                   /\ result.value.results[1].chunk_id = holder.chunk_id

\* a bm25 retrieve of a term that one chunk of four or more holds
C30_Witness ==
    /\ RetrievedFromStore(result) /\ result.strategy = "bm25"
    /\ OneTermOneChunk(result.query)
    /\ Len(chunks) >= 4 /\ result.top_k = 5
    /\ Len(result.value.results) = 1
    /\ result.value.results[1].text = <<"solar", "energy", BREAK, "wind", "power">>

\* ------------------------------------------------------------------- C31
\* the decide coroutine c got its review in this step and returned
ReviewedAndReturned(c) == coro[c].pc = "await_auditor" /\ coro'[c].pc = "idle"

\* the decision is held for approval, by the verdict and the flag alone
HeldByVerdict(l) == l.verdict = "needs_approval" /\ settings.enable_human_in_loop

\* the audit_result the last event carries
LastAuditResult(evs) == evs[Len(evs)].payload.audit_result

\* C31: the review is advisory. What decide returns and leaves behind is
\* fixed by the query, the evidence, the verdict, the flag and the generated
\* answer: the state and the answer of the decision, the agent state and the
\* pending slot are the same for every review (PASS, FAIL, PARTIAL or a
\* failed request); only the audit payload carries the review.
C31_ReviewIsAdvisory ==
    [][\A c \in Coroutines :
          ReviewedAndReturned(c) =>
              LET l == coro[c]
                  held == HeldByVerdict(l)
              IN  /\ result'.op = "decide"
                  /\ result'.value.agent_state
                         = (IF held THEN "waiting_approval" ELSE "completed")
                  /\ result'.value.answer
                         = (IF held THEN <<"[AWAITING APPROVAL] ">> \o l.answer
                            ELSE l.answer)
                  /\ state' = (IF held THEN "waiting_approval" ELSE "completed")
                  /\ pending' = (IF held
                                 THEN [result'.value EXCEPT !.agent_state = "completed",
                                                            !.answer = l.answer]
                                 ELSE pending)
                  /\ result'.value.query = l.query
                  /\ result'.value.evidence = l.evidence.results
                  /\ LastAuditResult(events')
                         \in {"PASS", "FAIL", "PARTIAL", "audit_skipped:api_error"}]_vars

\* two decide runs on the same query and evidence with the same generated
\* answer, one reviewed FAIL and one whose review request failed, returned
\* the same answer and state
C31_Witness ==
    /\ DOMAIN returned = {1, 2}
    /\ returned[1].query = returned[2].query
    /\ returned[1].evidence = returned[2].evidence
    /\ returned[1].answer = returned[2].answer
    /\ returned[1].agent_state = returned[2].agent_state
    /\ returned[1].agent_state = "waiting_approval"
    /\ returned[1].answer = <<"[AWAITING APPROVAL] ", "it", "is", "energy">>
    /\ \E i, j \in 1..Len(events) :
           /\ events[i].event_type = "decision_pending_approval"
           /\ events[j].event_type = "decision_pending_approval"
           /\ events[i].payload.audit_result = "FAIL"
           /\ events[j].payload.audit_result = "audit_skipped:api_error"

\* ------------------------------------------------------------------- C32
\* the feedback records of a list that carry the rating
RatedAs(fs, rating) == {k \in 1..Len(fs) : fs[k].rating = rating}

\* C32: after any sequence of record_feedback and evaluate_decision calls
\* the hallucination counter is the number of feedback records rated
\* HALLUCINATION and the incorrect counter the number rated INCORRECT, so
\* CORRECT and PARTIALLY_CORRECT feedback is recorded without being counted;
\* every call appends exactly one record to the feedback sequence.
C32_CountersCountMistakes ==
    [][(result'.op \in {"record_feedback", "evaluate_decision"}
          /\ loops'[1] # loops[1]) =>
          LET before == loops[1].feedback
              after == loops'[1].feedback
          IN  /\ Len(after) = Len(before) + 1
              /\ SubSeq(after, 1, Len(before)) = before
              /\ after[Len(after)] = result'.value
              /\ loops'[1].mistake_counts.hallucination
                     = Cardinality(RatedAs(after, "HALLUCINATION"))
              /\ loops'[1].mistake_counts.incorrect
                     = Cardinality(RatedAs(after, "INCORRECT"))]_vars

\* feedback of all four ratings has been recorded, one of them by
\* evaluate_decision, and both counters stand at 1
C32_Witness ==
    /\ \A rating \in {"CORRECT", "PARTIALLY_CORRECT", "INCORRECT", "HALLUCINATION"} :
           RatedAs(loops[1].feedback, rating) # {}
    /\ result.op = "evaluate_decision"
    /\ Len(loops[1].feedback) = 5
    /\ loops[1].mistake_counts = [incorrect |-> 1, hallucination |-> 1]

\* ------------------------------------------------------------------- C33
\* the events of a sequence
EventsOf(evs) == {evs[i] : i \in 1..Len(evs)}

\* the thread leaves log in this step and nothing reached the file
WriteFailed(t) ==
    /\ threads[t].pc = "write"
    /\ threads'[t].pc = "idle"
    /\ audit_file' = audit_file

\* C33: when the append to the audit file fails, log raises nothing and
\* returns the event, the operation that logged returns its normal result
\* (override: its record), the event is in the in-memory list that
\* get_events returns, and no step removes an event from that list.
C33_WriteFailureSwallowed ==
    [][
        /\ \A t \in Threads :
              WriteFailed(t) =>
                 /\ result'.value # Raised
                 /\ result'.event = threads[t].event
                 /\ (result'.op = "log" => result'.value = threads[t].event)
                 /\ (result'.op = "override" =>
                        result'.value = HumanOverride(1, <<"fixed">>, <<"policy">>))
                 /\ threads[t].event \in EventsOf(events')
        /\ (result'.op = "get_events" /\ threads' = threads
               /\ result'.decision_id = NoId /\ result'.layer = "") =>
              result'.value = events
        /\ Len(events') >= Len(events)
        /\ SubSeq(events', 1, Len(events)) = events
      ]_vars

\* an override whose audit line could not be written has returned its
\* record; the event is in memory and not in the file
C33_Witness ==
    /\ result.op = "override"
    /\ ~result.written
    /\ result.value = HumanOverride(1, <<"fixed">>, <<"policy">>)
    /\ result.event \in EventsOf(events)
    /\ result.event \notin EventsOf(audit_file)

\* ------------------------------------------------------------------- C36
\* where an event stands in a sequence that holds it
PlaceIn(evs, e) == CHOOSE i \in 1..Len(evs) : evs[i] = e

\* C36: with several threads in log at once, every event whose append has
\* run is in the in-memory list, and the lines of the audit file stand in
\* the order their events have in the in-memory list.
C36_FileOrderIsMemoryOrder ==
    /\ \A t \in Threads :
          threads[t].pc = "write" => threads[t].event \in EventsOf(events)
    /\ EventsOf(audit_file) \subseteq EventsOf(events)
    /\ \A i, j \in 1..Len(audit_file) :
          i < j => PlaceIn(events, audit_file[i]) < PlaceIn(events, audit_file[j])

\* ------------------------------------------------------------------- C34
\* both calls have returned
BothReturned ==
    /\ \A t \in Threads : threads[t].pc = "idle"
    /\ Len(loops[1].feedback) = BaseLen + 2

\* the loop the threads started from: a loop is what its records make it
\* when they are recorded one after the other
StartLoop ==
    ReplayLoop([k \in 1..BaseLen |-> loops[1].feedback[k].rating])

\* the loop after the two calls in the order first, second
SerialOutcome(first, second) == Recorded(Recorded(StartLoop, first), second)

\* the same records, counters and adjustments
SameOutcome(l, serial) ==
    /\ EventsOf(l.feedback) = EventsOf(serial.feedback)
    /\ Len(l.feedback) = Len(serial.feedback)
    /\ l.mistake_counts = serial.mistake_counts
    /\ l.adjustments = serial.adjustments

\* C34: when two threads have called record_feedback at the same time, the
\* loop is as one of the two serial orders of the calls leaves it: both
\* records are held, each counter is the number of recorded mistakes of its
\* rating, and a threshold crossing has made one adjustment, not none and
\* not two.
C34_ConcurrentFeedbackSerializable ==
    BothReturned =>
        LET f1 == loops[1].feedback[BaseLen + 1]
            f2 == loops[1].feedback[BaseLen + 2]
        IN /\ \/ SameOutcome(loops[1], SerialOutcome(f1, f2))
              \/ SameOutcome(loops[1], SerialOutcome(f2, f1))
           /\ loops[1].mistake_counts.incorrect =
                  Cardinality(RatedAs(loops[1].feedback, "INCORRECT"))
           /\ loops[1].mistake_counts.hallucination =
                  Cardinality(RatedAs(loops[1].feedback, "HALLUCINATION"))

\* ------------------------------------------------------------------- C35
\* C35: whatever policy evaluation and the external calls come to, a
\* decide call that has ended has returned a Decision whose state is one
\* of the exit points WAITING_APPROVAL, COMPLETED, FAILED; none has raised
\* to its caller.
C35_DecideReturnsDecision ==
    result.op = "decide" =>
        /\ result.value # Raised
        /\ result.value.agent_state \in {"waiting_approval", "completed", "failed"}

\* ------------------------------------------------------------------- C37
\* C37: whenever no decide call is in progress, the agent is in
\* WAITING_APPROVAL exactly when the pending slot holds a decision.
C37_WaitingIffPending ==
    InFlight = {} => (state = "waiting_approval" <=> pending # None)

\* ------------------------------------------------------------------- C38
\* a decide call returns in this step, COMPLETED or FAILED
ReturnsFinished ==
    /\ returned' # returned
    /\ result'.op = "decide"
    /\ result'.value.agent_state \in {"completed", "failed"}

\* C38: a decide call that returns a COMPLETED or FAILED decision leaves
\* the pending slot as it was, so a decision that was pending before is
\* still held under its identifier, in the form approve and reject take it.
C38_FinishedDecideKeepsPending ==
    [][ReturnsFinished =>
          /\ pending' = pending
          /\ pending # None =>
                 /\ pending'.decision_id \in DOMAIN returned
                 /\ pending'.decision_id # result'.value.decision_id
                 /\ returned[pending'.decision_id].agent_state = "waiting_approval"]_vars

\* decision 1 was pending, decide returned decision 2 completed or failed,
\* and then decision 1 was approved by its identifier
C38_Witness ==
    /\ result.op = "approve"
    /\ result.value # None
    /\ result.id = 1
    /\ result.value.decision_id = 1
    /\ 2 \in DOMAIN returned
    /\ returned[2].agent_state \in {"completed", "failed"}
    /\ returned[1].agent_state = "waiting_approval"

\* ------------------------------------------------------------------- C39
\* the rating whose count makes an adjustment of this type
MistakeTypeOf(adjustment_type) ==
    IF adjustment_type = "retrieval_weight" THEN "HALLUCINATION" ELSE "INCORRECT"

\* C39: the trigger of every adjustment is the identifier of a recorded
\* feedback whose rating is the adjustment's mistake type: HALLUCINATION for
\* retrieval_weight, INCORRECT for prompt_patch.
C39_TriggerIsTheMistake ==
    \A k \in 1..Len(loops[1].adjustments) :
        LET adj == loops[1].adjustments[k]
        IN \E n \in 1..Len(loops[1].feedback) :
              /\ loops[1].feedback[n].feedback_id = adj.trigger_feedback_id
              /\ loops[1].feedback[n].rating = MistakeTypeOf(adj.adjustment_type)

\* ------------------------------------------------------------------- C40
\* C40: after any sequence of index calls, a document identifier indexed
\* twice included, no two chunks of the store have the same chunk
\* identifier.
C40_ChunkIdsDistinct ==
    \A i, j \in 1..Len(chunks) : i # j => chunks[i].chunk_id # chunks[j].chunk_id

====
